---- MODULE Spec2Model ----
(***************************************************************************)
(* Model of the piano visualizer (components/piano-visualizer.tsx).        *)
(*                                                                         *)
(* Units.  The source computes with IEEE doubles; the model uses exact     *)
(* integers in fixed units:                                                *)
(*   time      1 = 1 ms           (note.time, note.duration, currentTime,  *)
(*                                 animTime, delta)                        *)
(*   length    1 = 0.001 unit     (heights, depths, y and z coordinates);  *)
(*                                 centres are kept doubled (y2 = 2*y) so  *)
(*                                 that height/2 stays an integer          *)
(*   life      1 = 0.0001         (life, maxLife of particles, sparkles)   *)
(*   velocity  1 = 0.001 unit/s   (velocity of particles, sparkles)        *)
(*   position  1 = 0.000001 unit  (position of particles, sparkles), so    *)
(*                                 that velocity * delta is a position     *)
(*   rotation  1 = 0.000001 rad, rotationSpeed 1 = 0.001 rad/s             *)
(*   lane x    1 = WHITE_KEY_WIDTH/2                                       *)
(*   camera    1 = 0.001 unit     (camera position and target), the up     *)
(*                                 vector in 0.000001                      *)
(***************************************************************************)
EXTENDS Integers, Sequences, FiniteSets, TLC

VARIABLES
    viewMode,       \* PianoPlayer viewMode -> PianoVisualizer prop
    midiData,       \* prop midiData: [loaded, tracks]; loaded = FALSE is null
    handFilter,     \* prop handFilter
    currentTime,    \* currentTimeRef.current (ms)
    animTime,       \* scene state animTime (ms)
    synced,         \* TRUE when the scene's useFrame has run since the props last changed
    notes,          \* scene useMemo: the derived note list
    activeNotes,    \* scene useMemo: the set of active pitches
    rendered,       \* the placements returned by (Synthesia)FallingNotes' render
    particles,      \* particlesRef.current
    sparkles,       \* sparklesRef.current
    phase,          \* which useFrame callback of the current frame runs next
    frames,         \* number of frames started so far
    frame,          \* the running frame: its delta (ms) and what FallingNotes will spawn in it
    particleCalls,  \* the spawnParticles calls of the last PianoKeys frame: [calls, pool size before]
    sparkleCalls,   \* the spawnSparkles calls of the last FallingNotes frame: [calls, requested per call, pool size before]
    lastSpawnedNotes,  \* lastSpawnedNotes.current of the mounted note renderer
    keyLog,         \* the last PianoKeys frame: its number and, per spawnParticles call, [midi, added]
    noteLog,        \* the last note renderer frame: its number, its currentTime prop and the ids it called onSpawnSparkles for; the frames so far
    isTransitioning,  \* CameraManager state isTransitioning
    transitionTimer,  \* the setTimeout of CameraManager's effect: [pending, remaining ms]
    sinceChange,      \* time (ms) since hasData or viewMode last changed, up to MaxElapsed
    controls,         \* the props CameraManager's render gives OrbitControls
    pose,             \* camera.position, controlsRef.current.target and camera.up
    lanes,            \* two pitches and what getNoteX returned for them
    player            \* PianoPlayer's isPlaying and duration, Tone.Transport, the updateTime loop

sceneVars == <<midiData, handFilter, currentTime, animTime, synced, notes, activeNotes, rendered>>
logVars == <<lastSpawnedNotes, keyLog, noteLog>>
poolVars == <<particles, sparkles, phase, frames, frame, particleCalls, sparkleCalls,
             lastSpawnedNotes, keyLog, noteLog>>
cameraVars == <<isTransitioning, transitionTimer, sinceChange, controls, pose>>
vars == <<viewMode, midiData, handFilter, currentTime, animTime, synced, notes, activeNotes,
          rendered, particles, sparkles, phase, frames, frame, particleCalls, sparkleCalls,
          lastSpawnedNotes, keyLog, noteLog,
          isTransitioning, transitionTimer, sinceChange, controls, pose, lanes, player>>

----------------------------------------------------------------------------
(* Program constants *)

KEYBOARD_WHITE_KEYS == 52
NOTE_SPEED == 25
FALL_HEIGHT == 40
HIT_Y == 0
KEY_Z == 0
\* VISIBLE_WINDOW = FALL_HEIGHT / NOTE_SPEED seconds = 1600 ms
VISIBLE_WINDOW == (FALL_HEIGHT * 1000) \div NOTE_SPEED
\* NOTE_GAP = 0.1 * NOTE_SPEED units = 2500 milli-units
NOTE_GAP == 100 * NOTE_SPEED
\* Math.max(0.1, ...) in both note renderers: 0.1 unit = 100 milli-units
MIN_EXTENT == 100
\* trailing grace of the fall view: timeUntilHit + duration < -0.5
FALL_GRACE == 500
\* trailing grace of the recede view: timeUntilHit + duration < 0
RECEDE_GRACE == 0
\* Math.abs(currentTimeRef.current - animTime) > 0.001
SYNC_EPSILON == 1
HAND_SPLIT == 60

maxParticles == 500
maxSparkles == 500
PARTICLE_COUNT == 1000
SPARKLE_COUNT == 500
particlesPerCall == 10
\* p.life -= delta * 1.2 : 12 life units per ms
PARTICLE_FADE == 12
\* s.life -= delta * 1.5 : 15 life units per ms
SPARKLE_FADE == 15
SPARKLE_LIFE == 10000
\* p.velocity.y -= 20 * delta : 20 velocity units per ms
PARTICLE_GRAVITY == 20
\* s.velocity.y -= 5 * delta : 5 velocity units per ms
SPARKLE_GRAVITY == 5
\* setTimeout(() => setIsTransitioning(false), 2000)
TRANSITION_MS == 2000

----------------------------------------------------------------------------
(* Bounds of the model *)

\* largest number of pitches active in one frame (88 keys exist)
MaxActive == 50
\* largest number of notes that become visible in one frame
MaxNewNotes == 100
\* number of frames a run of the pools is followed for
MaxFrames == 8
\* longest time (ms) followed after a change of hasData or viewMode
MaxElapsed == 3000
\* number of frames the camera pose is followed for
MaxCameraFrames == 9
\* number of frames the effects of a score are followed for
MaxEffectFrames == 2
\* number of frames with spawn requests before the requests stop
MaxSpawnFrames == 2

Min(a, b) == IF a < b THEN a ELSE b
Max(a, b) == IF a > b THEN a ELSE b
Abs(a) == IF a < 0 THEN 0 - a ELSE a

----------------------------------------------------------------------------
(* Effect pools.  A particle is [life, maxLife, position, velocity], a      *)
(* sparkle has rotation and rotationSpeed as well; position and velocity    *)
(* are <<x, y, z>>.  Colour and size do not change and are left out.        *)
(* Positions are relative to the x of the key (particles) or the x and y,   *)
(* or x and z, of the note (sparkles) the spawn call is made for.           *)

\* the object spawnParticles pushes for the life l
Particle(l, draw) ==
    [life |-> l, maxLife |-> l, position |-> draw.position, velocity |-> draw.velocity]

\* the object spawnSparkles pushes
Sparkle(l, draw) ==
    [life |-> l, maxLife |-> l, position |-> draw.position, velocity |-> draw.velocity,
     rotation |-> draw.rotation, rotationSpeed |-> draw.rotationSpeed]

\* Math.random() results for position and velocity of a particle.
\* PianoScene: position (x + 0.3, HIT_Y + 3, -1), velocity
\* (sin(angle) * speed * 0.8, cos(angle) * speed * 1.2, (random - 0.5) * 5);
\* SynthesiaScene: position (x, 1, 0), velocity
\* (sin(angle) * speed * 0.5, random * 5 + 2, cos(angle) * speed * 0.5).
ParticleDraw(view) ==
    IF view = "synthesia"
    THEN [position |-> <<0, 1000000, 0>>, velocity |-> <<2000, 5000, 3000>>]
    ELSE [position |-> <<300000, 3000000, 0 - 1000000>>, velocity |-> <<4000, 12000, 1000>>]

\* Math.random() results for position, velocity and rotation of a sparkle.
\* PianoScene: position (x + offsetX, y + offsetY, -2), velocity
\* ((random - 0.5) * 2, -NOTE_SPEED * 0.8 - random * 5, (random - 0.5) * 1),
\* rotationSpeed (random - 0.5) * 10;
\* SynthesiaScene: position (x + offsetX, 2, z + offsetZ), velocity
\* ((random - 0.5) * 1, random * 2, NOTE_SPEED), rotationSpeed (random - 0.5) * 5.
SparkleDraw(view) ==
    IF view = "synthesia"
    THEN [position |-> <<500000, 2000000, 0 - 500000>>,
          velocity |-> <<250, 1000, 1000 * NOTE_SPEED>>,
          rotation |-> 1000000, rotationSpeed |-> 0 - 1500]
    ELSE [position |-> <<500000, 4000000, 0 - 2000000>>,
          velocity |-> <<500, 0 - (800 * NOTE_SPEED + 2000), 0 - 250>>,
          rotation |-> 1000000, rotationSpeed |-> 2000]

\* Math.random() results of one spawnParticles call, one life per pushed particle.
\* PianoScene: life = 1.0 + random * 0.5, in [1.0, 1.5);
\* SynthesiaScene: life = 0.8 + random * 0.4, in [0.8, 1.2).
EvenLives(view) ==
    [i \in 1..particlesPerCall |-> IF view = "synthesia" THEN 9000 ELSE 12000]

MixedLives(view) ==
    [i \in 1..particlesPerCall |->
        IF view = "synthesia" THEN (IF i <= 5 THEN 8000 ELSE 11000)
                              ELSE (IF i <= 5 THEN 10000 ELSE 14000)]

\* sparkles requested by one spawnSparkles call:
\* 3 + Math.floor(Math.random() * 3) in PianoScene, the literal 2 in SynthesiaScene
FewSparkles(view) == IF view = "synthesia" THEN 2 ELSE 3

ManySparkles(view) == IF view = "synthesia" THEN 2 ELSE 5

\* spawnParticles without the capacity limit
spawnParticlesUnlimited(pool, lives, draw) ==
    pool \o [i \in 1..particlesPerCall |-> Particle(lives[i], draw)]

\* PianoScene.spawnParticles / SynthesiaScene.spawnParticles
spawnParticles(pool, lives, draw) ==
    LET currentCount == Len(pool)
        availableSlots == maxParticles - currentCount
    IN  IF availableSlots <= 0 THEN pool
        ELSE LET particleCount == Min(particlesPerCall, availableSlots)
             IN  pool \o [i \in 1..particleCount |-> Particle(lives[i], draw)]

\* spawnSparkles that drops a request it cannot serve in full
spawnSparklesAllOrNothing(pool, requested, draw) ==
    IF maxSparkles - Len(pool) < requested THEN pool
    ELSE pool \o [i \in 1..requested |-> Sparkle(SPARKLE_LIFE, draw)]

\* PianoScene.spawnSparkles / SynthesiaScene.spawnSparkles; requested is the
\* per-call count before the capacity limit
spawnSparkles(pool, requested, draw) ==
    LET currentCount == Len(pool)
        availableSlots == maxSparkles - currentCount
    IN  IF availableSlots <= 0 THEN pool
        ELSE LET sparkleCount == Min(requested, availableSlots)
             IN  pool \o [i \in 1..sparkleCount |-> Sparkle(SPARKLE_LIFE, draw)]

\* n successive spawnParticles calls (activeNotes.forEach in PianoKeys.useFrame),
\* made as a first run of n \div 2 calls and a second run of the rest.  The
\* test on Len(first) only makes TLC compute the first run's pool before the
\* second run starts; it is never true.
RECURSIVE SpawnParticlesTimes(_, _, _, _)
SpawnParticlesTimes(pool, n, lives, draw) ==
    IF n = 0 THEN pool
    ELSE IF n = 1 THEN spawnParticles(pool, lives, draw)
    ELSE LET half == n \div 2
             first == SpawnParticlesTimes(pool, half, lives, draw)
         IN  IF Len(first) < 0 THEN first
             ELSE SpawnParticlesTimes(first, n - half, lives, draw)

\* n successive spawnSparkles calls (notes.forEach in FallingNotes.useFrame)
RECURSIVE SpawnSparklesTimes(_, _, _, _)
SpawnSparklesTimes(pool, n, requested, draw) ==
    IF n = 0 THEN pool
    ELSE IF n = 1 THEN spawnSparkles(pool, requested, draw)
    ELSE LET half == n \div 2
             first == SpawnSparklesTimes(pool, half, requested, draw)
         IN  IF Len(first) < 0 THEN first
             ELSE SpawnSparklesTimes(first, n - half, requested, draw)

\* The loop of ParticleSystem.useFrame and SparkleSystem.useFrame,
\*     for (i = length - 1; i >= 0; i--) { life -= delta * fade;
\*         if (life <= 0) { splice(i, 1); continue }
\*         if (activeCount >= COUNT) { splice(i, 1); continue }
\*         ...; activeCount++ }
\* visits the members from the newest (highest index) to the oldest.  A
\* splice at i moves only members that were already visited, so the loop keeps
\* the order of the survivors: it drops every member whose faded life is <= 0,
\* and of the others it keeps the first `count` it meets, the newest ones.
\* a step that leaves every life as it is
FadeNothing(pool, fade, dt) == [i \in 1..Len(pool) |-> [pool[i] EXCEPT !.life = @]]

\* p.life -= delta * 1.2 / s.life -= delta * 1.5, for every member
Fade(pool, fade, dt) == [i \in 1..Len(pool) |-> [pool[i] EXCEPT !.life = @ - dt * fade]]

\* the expiry test with < in place of <=
ExpiredBelowZero(m) == m.life < 0

\* if (p.life <= 0) { particles.splice(i, 1); continue }
Expired(m) == m.life <= 0

\* the members the first splice leaves, in pool order
Unexpired(pool) ==
    LET Keep(m) == ~Expired(m)
    IN  SelectSeq(pool, Keep)

\* activeCount when the loop ends (instancedMesh.count)
ActiveCount(pool, fade, count, dt) ==
    Min(Len(Unexpired(Fade(pool, fade, dt))), count)

\* a loop that stops writing instances at half the mesh capacity
AdvanceLoopSmallMesh(pool, fade, count, dt) ==
    LET live == Unexpired(Fade(pool, fade, dt))
        activeCount == Min(Len(live), count \div 2)
    IN  SubSeq(live, Len(live) - activeCount + 1, Len(live))

\* the loop of ParticleSystem.useFrame / SparkleSystem.useFrame: the members kept
AdvanceLoop(pool, fade, count, dt) ==
    LET live == Unexpired(Fade(pool, fade, dt))
        activeCount == Min(Len(live), count)
    IN  SubSeq(live, Len(live) - activeCount + 1, Len(live))

\* position.add(velocity.clone().multiplyScalar(delta))
Moved(position, velocity, dt) == [k \in 1..3 |-> position[k] + velocity[k] * dt]

\* a step that moves the member by the velocity it had before the step
IntegrateOldVelocity(m, gravity, dt) ==
    [m EXCEPT !.velocity = [@ EXCEPT ![2] = @ - gravity * dt],
              !.position = Moved(@, m.velocity, dt)]

\* velocity.y -= gravity * delta; position.add(velocity.clone().multiplyScalar(delta))
Integrate(m, gravity, dt) ==
    LET velocity == [m.velocity EXCEPT ![2] = @ - gravity * dt]
    IN  [m EXCEPT !.velocity = velocity, !.position = Moved(@, velocity, dt)]

\* s.rotation += s.rotationSpeed * delta
Rotate(s, dt) == [s EXCEPT !.rotation = @ + s.rotationSpeed * dt]

\* a ParticleSystem whose frame leaves the pool as it is
ParticleAdvanceIdle(pool, dt) == pool

\* ParticleSystem.useFrame
ParticleAdvance(pool, dt) ==
    LET kept == AdvanceLoop(pool, PARTICLE_FADE, PARTICLE_COUNT, dt)
    IN  [i \in 1..Len(kept) |-> Integrate(kept[i], PARTICLE_GRAVITY, dt)]

\* SparkleSystem.useFrame
SparkleAdvance(pool, dt) ==
    LET kept == AdvanceLoop(pool, SPARKLE_FADE, SPARKLE_COUNT, dt)
    IN  [i \in 1..Len(kept) |-> Integrate(Rotate(kept[i], dt), SPARKLE_GRAVITY, dt)]

----------------------------------------------------------------------------
(* The note list.  A score is midiData.tracks: a sequence of tracks, each a  *)
(* sequence of notes [midi, time, duration].                                 *)

\* a resolver with four black keys in an octave
isBlackKeyFourPerOctave(midi) == (midi % 12) \in {1, 3, 6, 10}

\* [1, 3, 6, 8, 10].includes(midi % 12)
isBlackKey(midi) == (midi % 12) \in {1, 3, 6, 8, 10}

\* the loop of getNoteX: the white keys from 21 up to, not including, midi
whiteKeyCount(midi) == Cardinality({i \in 21..(midi - 1) : ~isBlackKey(i)})

\* getNoteX(midi); x in half white keys, width in hundredths of a white key
getNoteX(midi) ==
    LET offset == 0 - KEYBOARD_WHITE_KEYS
    IN  IF isBlackKey(midi)
        THEN [x |-> offset + 2 * whiteKeyCount(midi) + 1, width |-> 65, isBlack |-> TRUE]
        ELSE [x |-> offset + 2 * whiteKeyCount(midi) + 1, width |-> 90, isBlack |-> FALSE]

\* an id without the index of the note in its track
NoteIdWithoutIndex(trackIndex, i, time) ==
    ToString(trackIndex) \o "-" \o ToString(time)

\* id: `${trackIndex}-${i}-${n.time}`
NoteId(trackIndex, i, time) ==
    ToString(trackIndex) \o "-" \o ToString(i) \o "-" \o ToString(time)

\* the object pushed for the note n at index i of track trackIndex
NoteData(n, trackIndex, i) ==
    LET lane == getNoteX(n.midi)
        isLeft == n.midi < HAND_SPLIT
    IN  [id |-> NoteId(trackIndex, i, n.time), midi |-> n.midi, time |-> n.time,
         duration |-> n.duration, isBlack |-> lane.isBlack, x |-> lane.x,
         width |-> lane.width, color |-> IF isLeft THEN "magenta" ELSE "cyan"]

\* the hand filter with pitch 60 in the left hand
PassesFilterSixtyLeft(midi, filter) ==
    LET isLeft == midi <= HAND_SPLIT
    IN  /\ ~(filter = "left" /\ ~isLeft)
        /\ ~(filter = "right" /\ isLeft)

\* the two early returns of the hand filter
PassesFilter(midi, filter) ==
    LET isLeft == midi < HAND_SPLIT
    IN  /\ ~(filter = "left" /\ ~isLeft)
        /\ ~(filter = "right" /\ isLeft)

\* track.notes.forEach((n, i) => ...): what one track pushes, in order
TrackNotes(track, trackIndex, filter) ==
    LET all == [k \in 1..Len(track) |-> NoteData(track[k], trackIndex, k - 1)]
        Keep(n) == PassesFilter(n.midi, filter)
    IN  SelectSeq(all, Keep)

\* midiData.tracks.forEach((track, trackIndex) => ...): the first count tracks
RECURSIVE AllNotes(_, _, _)
AllNotes(tracks, count, filter) ==
    IF count = 0 THEN << >>
    ELSE AllNotes(tracks, count - 1, filter)
            \o TrackNotes(tracks[count], count - 1, filter)

\* a step that puts n before the notes of equal time
InsertBeforeEqual(sorted, n) ==
    LET k == Cardinality({j \in 1..Len(sorted) : sorted[j].time < n.time})
    IN  SubSeq(sorted, 1, k) \o <<n>> \o SubSeq(sorted, k + 1, Len(sorted))

\* one step of the stable sort by (a, b) => a.time - b.time
InsertByTime(sorted, n) ==
    LET k == Cardinality({j \in 1..Len(sorted) : sorted[j].time <= n.time})
    IN  SubSeq(sorted, 1, k) \o <<n>> \o SubSeq(sorted, k + 1, Len(sorted))

\* allNotes.sort((a, b) => a.time - b.time)
RECURSIVE SortByTime(_)
SortByTime(s) ==
    IF s = << >> THEN << >>
    ELSE InsertByTime(SortByTime(SubSeq(s, 1, Len(s) - 1)), s[Len(s)])

\* the notes useMemo of PianoScene / SynthesiaScene
DeriveNotes(midi, filter) ==
    IF ~midi.loaded THEN << >>
    ELSE SortByTime(AllNotes(midi.tracks, Len(midi.tracks), filter))

----------------------------------------------------------------------------
(* The active pitches *)

\* the test with the end of the note included
isActiveClosed(n, t) == t >= n.time /\ t <= n.time + n.duration

\* animTime >= n.time && animTime < n.time + n.duration
isActive(n, t) == t >= n.time /\ t < n.time + n.duration

\* an iteration that visits a pitch once for every active note of that pitch
ActiveNotesWithRepeats(noteList, t) ==
    LET index == [j \in 1..Len(noteList) |-> j]
        Active(j) == isActive(noteList[j], t)
        active == SelectSeq(index, Active)
    IN  [k \in 1..Len(active) |-> noteList[active[k]].midi]

\* the order of activeNotes.forEach: a Set is iterated in insertion order, and
\* active.add(n.midi) inserts a pitch at the first active note that has it
ActiveOrder(noteList, t) ==
    LET index == [j \in 1..Len(noteList) |-> j]
        First(j) ==
            /\ isActive(noteList[j], t)
            /\ \A i \in 1..(j - 1) :
                  ~(isActive(noteList[i], t) /\ noteList[i].midi = noteList[j].midi)
        firsts == SelectSeq(index, First)
    IN  [k \in 1..Len(firsts) |-> noteList[firsts[k]].midi]

\* the activeNotes useMemo
DeriveActive(noteList, t) ==
    {noteList[i].midi : i \in {j \in 1..Len(noteList) : isActive(noteList[j], t)}}

----------------------------------------------------------------------------
(* The note blocks.  A placement is what a renderer returns for one note:    *)
(* [id, x, width, size, centre2] with size the height (fall view) or depth   *)
(* (recede view) and centre2 twice the y (fall view) or z (recede view) of   *)
(* the block's centre.  t is the currentTime prop of the renderer.           *)

\* the fall view's check without the trailing half second
fallHiddenNoGrace(note, t) ==
    LET timeUntilHit == note.time - t
    IN  timeUntilHit > VISIBLE_WINDOW \/ timeUntilHit + note.duration < 0

\* FallingNotes: timeUntilHit > VISIBLE_WINDOW || timeUntilHit + note.duration < -0.5
fallHidden(note, t) ==
    LET timeUntilHit == note.time - t
    IN  timeUntilHit > VISIBLE_WINDOW \/ timeUntilHit + note.duration < 0 - FALL_GRACE

\* FallingNotes: height = Math.max(0.1, fullHeight - NOTE_GAP)
fallHeight(note) ==
    LET fullHeight == note.duration * NOTE_SPEED
    IN  Max(MIN_EXTENT, fullHeight - NOTE_GAP)

\* a block that stops at the keys once its note has started
fallCentre2Stopped(timeUntilHit, height) ==
    2 * (HIT_Y + Max(0, timeUntilHit) * NOTE_SPEED) + height

\* FallingNotes: y = HIT_Y + timeUntilHit * NOTE_SPEED + height / 2, doubled
fallCentre2(timeUntilHit, height) ==
    2 * (HIT_Y + timeUntilHit * NOTE_SPEED) + height

FallPlacement(note, t) ==
    LET timeUntilHit == note.time - t
        height == fallHeight(note)
    IN  [id |-> note.id, x |-> note.x, width |-> note.width,
         size |-> height, centre2 |-> fallCentre2(timeUntilHit, height)]

\* the render of FallingNotes: notes.map(...) without the nulls
FallingNotes(noteList, t) ==
    LET Shown(note) == ~fallHidden(note, t)
        shown == SelectSeq(noteList, Shown)
    IN  [i \in 1..Len(shown) |-> FallPlacement(shown[i], t)]

\* a recede view that looks twice as far ahead
synthesiaHiddenWideWindow(note, t) ==
    LET timeUntilHit == note.time - t
    IN  timeUntilHit > 2 * VISIBLE_WINDOW \/ timeUntilHit + note.duration < 0 - RECEDE_GRACE

\* SynthesiaFallingNotes: timeUntilHit > VISIBLE_WINDOW || timeUntilHit + note.duration < 0
synthesiaHidden(note, t) ==
    LET timeUntilHit == note.time - t
    IN  timeUntilHit > VISIBLE_WINDOW \/ timeUntilHit + note.duration < 0 - RECEDE_GRACE

\* the full depth without the visual gap
fullDepthNoGap(note) ==
    LET fullDepthOriginal == note.duration * NOTE_SPEED
    IN  Max(MIN_EXTENT, fullDepthOriginal)

\* SynthesiaFallingNotes: fullDepth = Math.max(0.1, fullDepthOriginal - NOTE_GAP)
fullDepth(note) ==
    LET fullDepthOriginal == note.duration * NOTE_SPEED
    IN  Max(MIN_EXTENT, fullDepthOriginal - NOTE_GAP)

\* a clipped depth that never gets to 0
currentDepthKeepsSliver(timeUntilHit, full) ==
    IF timeUntilHit < 0
    THEN LET passedDepth == (0 - timeUntilHit) * NOTE_SPEED
         IN  Max(1, full - passedDepth)
    ELSE full

\* SynthesiaFallingNotes: currentDepth, clipped once timeUntilHit < 0
currentDepth(timeUntilHit, full) ==
    IF timeUntilHit < 0
    THEN LET passedDepth == (0 - timeUntilHit) * NOTE_SPEED
         IN  Max(0, full - passedDepth)
    ELSE full

\* the centre without the re-centering of the clipped piece
zCenter2Unclipped(timeUntilHit, depth) ==
    2 * (KEY_Z - timeUntilHit * NOTE_SPEED) - depth

\* SynthesiaFallingNotes: zCenter, doubled
zCenter2(timeUntilHit, depth) ==
    IF timeUntilHit < 0
    THEN 2 * KEY_Z - depth
    ELSE 2 * (KEY_Z - timeUntilHit * NOTE_SPEED) - depth

SynthesiaPlacement(note, t) ==
    LET timeUntilHit == note.time - t
        depth == currentDepth(timeUntilHit, fullDepth(note))
    IN  [id |-> note.id, x |-> note.x, width |-> note.width,
         size |-> depth, centre2 |-> zCenter2(timeUntilHit, depth)]

\* the render of SynthesiaFallingNotes: notes.map(...) without the nulls,
\* the second null being if (currentDepth <= 0) return null
SynthesiaFallingNotes(noteList, t) ==
    LET Shown(note) ==
            /\ ~synthesiaHidden(note, t)
            /\ ~(currentDepth(note.time - t, fullDepth(note)) <= 0)
        shown == SelectSeq(noteList, Shown)
    IN  [i \in 1..Len(shown) |-> SynthesiaPlacement(shown[i], t)]

\* what the mounted scene renders for its note list and animTime
Render(view, noteList, t) ==
    IF view = "synthesia" THEN SynthesiaFallingNotes(noteList, t)
    ELSE FallingNotes(noteList, t)

----------------------------------------------------------------------------
(* CameraManager *)

\* hasData={!!midiData}
hasData(midi) == midi.loaded

\* a timer that is left running when the effect runs again
StartTimerKeepPending(timer) ==
    IF timer.pending THEN timer ELSE [pending |-> TRUE, remaining |-> TRANSITION_MS]

\* the effect on [hasData, viewMode]: its cleanup clears the timeout of the
\* previous run, then setTimeout(..., 2000)
StartTimer(timer) == [pending |-> TRUE, remaining |-> TRANSITION_MS]

\* rotation left on in every view
enableRotateAlways(view) == TRUE

\* enableRotate={!isTopDown}, isTopDown = viewMode === 'synthesia'
enableRotate(view) ==
    LET isTopDown == view = "synthesia"
    IN  ~isTopDown

\* auto-rotation whenever the controller is not transitioning
autoRotateWhenSettled(data, transitioning) == ~transitioning

\* autoRotate={!hasData && !isTransitioning}
autoRotate(data, transitioning) == ~data /\ ~transitioning

\* OrbitControls with enabled fixed to true
OrbitControlsAlwaysEnabled(data, view, transitioning) ==
    [enabled |-> TRUE,
     autoRotate |-> autoRotate(data, transitioning),
     enableRotate |-> enableRotate(view),
     leftButton |-> IF view = "synthesia" THEN "PAN" ELSE "ROTATE"]

\* the render of CameraManager: enabled, autoRotate, enableRotate and
\* mouseButtons.LEFT (undefined mouseButtons leave the default, ROTATE)
OrbitControls(data, view, transitioning) ==
    LET isTopDown == view = "synthesia"
    IN  [enabled |-> ~transitioning,
         autoRotate |-> autoRotate(data, transitioning),
         enableRotate |-> enableRotate(view),
         leftButton |-> IF isTopDown THEN "PAN" ELSE "ROTATE"]

\* a commit whose effect keeps the timeout of the transition under way
CameraCommitKeepsTimeout(data, view) ==
    IF data # hasData(midiData) \/ view # viewMode
    THEN /\ isTransitioning' = TRUE
         /\ transitionTimer' = IF isTransitioning THEN transitionTimer
                                ELSE StartTimer(transitionTimer)
         /\ sinceChange' = 0
         /\ controls' = OrbitControls(data, view, TRUE)
         /\ UNCHANGED pose
    ELSE /\ controls' = OrbitControls(data, view, isTransitioning)
         /\ UNCHANGED <<isTransitioning, transitionTimer, sinceChange, pose>>

\* a commit of CameraManager with the props data and view: when hasData or
\* viewMode changed the effect runs, setIsTransitioning(true) and a new timeout
CameraCommit(data, view) ==
    IF data # hasData(midiData) \/ view # viewMode
    THEN /\ isTransitioning' = TRUE
         /\ transitionTimer' = StartTimer(transitionTimer)
         /\ sinceChange' = 0
         /\ controls' = OrbitControls(data, view, TRUE)
         /\ UNCHANGED pose
    ELSE /\ controls' = OrbitControls(data, view, isTransitioning)
         /\ UNCHANGED <<isTransitioning, transitionTimer, sinceChange, pose>>

\* <Canvas camera={{ position: [0, 60, 60] }}>; the default up vector of a
\* camera is (0, 1, 0) and the default target of OrbitControls (0, 0, 0)
InitialPose ==
    [position |-> <<0, 60000, 60000>>, target |-> <<0, 0, 0>>, up |-> <<0, 1000000, 0>>]

\* the targetPos, targetLook and targetUp that CameraManager.useFrame sets
TargetPose(data, view) ==
    IF ~data
    THEN [position |-> <<0, 60000, 60000>>, target |-> <<0, 0, 0>>,
          up |-> <<0, 1000000, 0>>]
    ELSE IF view = "synthesia"
    THEN [position |-> <<0, 60000, 0>>, target |-> <<0, 0, 0>>, up |-> <<0, 0, 0 - 1000000>>]
    ELSE [position |-> <<0, 45000, 12500>>, target |-> <<0, 0, 0>>, up |-> <<0, 1000000, 0>>]

\* Vector3.lerp(v, alpha): this += (v - this) * alpha, alpha given in thousandths
Lerp(from, to, alpha) ==
    [k \in 1..3 |-> from[k] + ((to[k] - from[k]) * alpha) \div 1000]

\* CameraManager.useFrame with delta = dt ms: camera.up.lerp(targetUp, delta * 2);
\* if (isTransitioning) { camera.position.lerp(targetPos, 4 * delta);
\* controlsRef.current.target.lerp(targetLook, 4 * delta) }
CameraManagerFrame(current, data, view, transitioning, dt) ==
    LET goal == TargetPose(data, view)
    IN  [up |-> Lerp(current.up, goal.up, 2 * dt),
         position |-> IF transitioning THEN Lerp(current.position, goal.position, 4 * dt)
                      ELSE current.position,
         target |-> IF transitioning THEN Lerp(current.target, goal.target, 4 * dt)
                    ELSE current.target]

----------------------------------------------------------------------------
(* The frame loop of the pools.  react-three-fiber calls the useFrame       *)
(* callbacks of one frame in subscription order: PianoKeys, FallingNotes,   *)
(* ParticleSystem, SparkleSystem, then the scene; all get the same delta.   *)

\* frame times (ms): a slow frame and a stalled one
Deltas == {250, 1000}

\* What the score presents to the callbacks of one frame: the activeNotes prop
\* of PianoKeys with the random lives its spawn calls draw, and the number of
\* notes for which FallingNotes calls onSpawnSparkles with the random count
\* each call requests.
FrameInputs(view) ==
    { [active |-> {}, lives |-> EvenLives(view),
       calls |-> 0, requested |-> FewSparkles(view)],
      [active |-> {60}, lives |-> MixedLives(view),
       calls |-> 1, requested |-> FewSparkles(view)],
      [active |-> 21..(20 + MaxActive), lives |-> EvenLives(view),
       calls |-> MaxNewNotes, requested |-> ManySparkles(view)] }

NoFrame == [delta |-> 0, calls |-> 0, requested |-> 0]

NoCalls == [calls |-> 0, before |-> 0]

NoSparkleCalls == [calls |-> 0, requested |-> 0, before |-> 0]

NoKeyLog == [frame |-> 0, calls |-> << >>]

NoNoteLog == [frame |-> 0, clock |-> 0, ids |-> {}, remounted |-> TRUE, history |-> << >>]

\* a frame in which the sparkle pool is advanced before the notes spawn
NextCallbackSparklesFirst(callback) ==
    CASE callback = "keys" -> "sparkles"
      [] callback = "sparkles" -> "notes"
      [] callback = "notes" -> "particles"
      [] callback = "particles" -> "keys"

\* the useFrame callbacks of a scene's children run in the order in which the
\* children are mounted: PianoKeys, the note renderer, ParticleSystem,
\* SparkleSystem; after the last the next frame starts with the first
NextCallback(callback) ==
    CASE callback = "keys" -> "notes"
      [] callback = "notes" -> "particles"
      [] callback = "particles" -> "sparkles"
      [] callback = "sparkles" -> "keys"

\* the members of a set of pitches, lowest first: the order of
\* activeNotes.forEach when the notes start in this order
SetOrder(active) ==
    [k \in 1..Cardinality(active) |->
        CHOOSE m \in active : Cardinality({x \in active : x < m}) = k - 1]

\* const key = keys.find(k => k.midi === midi); if (key) ...
KeyPitches(pitches) ==
    LET HasKey(midi) == midi >= 21 /\ midi <= 108
    IN  SelectSeq(pitches, HasKey)

\* what each onSpawnParticles call of activeNotes.forEach adds to the pool, in
\* call order; made as a first run and a second run like SpawnParticlesTimes
RECURSIVE KeySpawnLog(_, _, _, _)
KeySpawnLog(pool, pitches, lives, draw) ==
    IF Len(pitches) = 0 THEN << >>
    ELSE IF Len(pitches) = 1
    THEN << [midi |-> pitches[1],
             added |-> Len(spawnParticles(pool, lives, draw)) - Len(pool)] >>
    ELSE LET half == Len(pitches) \div 2
             first == SpawnParticlesTimes(pool, half, lives, draw)
         IN  IF Len(first) < 0 THEN << >>
             ELSE KeySpawnLog(pool, SubSeq(pitches, 1, half), lives, draw)
                  \o KeySpawnLog(first, SubSeq(pitches, half + 1, Len(pitches)), lives, draw)

\* keys.find(k => k.midi === midi): only the 88 keys 21..108 exist
KeyCalls(active) == Cardinality({m \in active : m >= 21 /\ m <= 108})

\* PianoKeys.useFrame in a frame that presents one of inputs
KeysFrameFrom(inputs) ==
    /\ phase = "keys"
    /\ frames < MaxFrames
    /\ frames' = frames + 1
    /\ \E in \in inputs, dt \in Deltas :
          /\ particles' = SpawnParticlesTimes(particles, KeyCalls(in.active), in.lives,
                                                 ParticleDraw(viewMode))
          /\ particleCalls' = [calls |-> KeyCalls(in.active), before |-> Len(particles)]
          /\ keyLog' = [frame |-> frames + 1,
                        calls |-> KeySpawnLog(particles, KeyPitches(SetOrder(in.active)),
                                              in.lives, ParticleDraw(viewMode))]
          /\ frame' = [delta |-> dt, calls |-> in.calls, requested |-> in.requested]
    /\ phase' = NextCallback(phase)
    /\ UNCHANGED <<viewMode, sceneVars, sparkles, sparkleCalls, lastSpawnedNotes, noteLog>>
    /\ UNCHANGED <<cameraVars, lanes, player>>

\* PianoKeys.useFrame
PianoKeysFrame ==
    /\ phase = "keys"
    /\ KeysFrameFrom(FrameInputs(viewMode))

\* FallingNotes.useFrame / SynthesiaFallingNotes.useFrame: the onSpawnSparkles calls
FallingNotesFrame ==
    /\ phase = "notes"
    /\ sparkles' = SpawnSparklesTimes(sparkles, frame.calls, frame.requested,
                                     SparkleDraw(viewMode))
    /\ sparkleCalls' = [calls |-> frame.calls, requested |-> frame.requested,
                        before |-> Len(sparkles)]
    /\ phase' = NextCallback(phase)
    /\ UNCHANGED <<viewMode, sceneVars, particles, particleCalls, frames, frame, logVars>>
    /\ UNCHANGED <<cameraVars, lanes, player>>

\* ParticleSystem.useFrame
ParticleSystemFrame ==
    /\ phase = "particles"
    /\ particles' = ParticleAdvance(particles, frame.delta)
    /\ phase' = NextCallback(phase)
    /\ UNCHANGED <<viewMode, sceneVars, sparkles, particleCalls, sparkleCalls, frames, frame,
                   logVars>>
    /\ UNCHANGED <<cameraVars, lanes, player>>

\* SparkleSystem.useFrame
SparkleSystemFrame ==
    /\ phase = "sparkles"
    /\ sparkles' = SparkleAdvance(sparkles, frame.delta)
    /\ phase' = NextCallback(phase)
    /\ frame' = NoFrame
    /\ UNCHANGED <<viewMode, sceneVars, particles, particleCalls, sparkleCalls, frames, logVars>>
    /\ UNCHANGED <<cameraVars, lanes, player>>

\* PianoVisualizer: viewMode === "synthesia" ? <SynthesiaScene/> : <PianoScene/>.
\* The other scene is mounted afresh: its useRef pools start empty, its
\* animTime state starts at 0 and its useMemo values are computed anew.
SetViewMode ==
    /\ phase = "keys"
    /\ \E v \in {"top-down", "synthesia"} :
          /\ v # viewMode
          /\ viewMode' = v
          /\ rendered' = Render(v, DeriveNotes(midiData, handFilter), 0)
          /\ CameraCommit(hasData(midiData), v)
    /\ animTime' = 0
    /\ synced' = FALSE
    /\ notes' = DeriveNotes(midiData, handFilter)
    /\ activeNotes' = DeriveActive(notes', 0)
    /\ particles' = << >>
    /\ sparkles' = << >>
    /\ particleCalls' = NoCalls
    /\ sparkleCalls' = NoSparkleCalls
    /\ lastSpawnedNotes' = {}
    /\ keyLog' = NoKeyLog
    /\ noteLog' = [NoNoteLog EXCEPT !.history = noteLog.history]
    /\ UNCHANGED <<midiData, handFilter, currentTime, phase, frames, frame, lanes, player>>

NoMidi == [loaded |-> FALSE, tracks |-> << >>]

\* no timeout is pending
NoTimer == [pending |-> FALSE, remaining |-> 0]

NoLane == [x |-> 0, width |-> 0, isBlack |-> FALSE]

----------------------------------------------------------------------------
(* PianoPlayer and Tone.Transport.  The transport has a state and a         *)
(* position (ms); stop() puts the position back to 0, pause() keeps it, and *)
(* the position advances only while the state is "started".                 *)

\* Tone.Transport.stop()
TransportStop(p) == [p EXCEPT !.state = "stopped", !.seconds = 0]

\* Tone.Transport.pause()
TransportPause(p) == [p EXCEPT !.state = IF @ = "started" THEN "paused" ELSE @]

\* Tone.Transport.start()
TransportStart(p) == [p EXCEPT !.state = "started"]

\* Tone.Transport.seconds = t
TransportSetSeconds(p, t) == [p EXCEPT !.seconds = t]

\* midi.duration: the end of the note that ends last, 0 without notes
MidiDuration(m) ==
    LET ends == UNION {{m.tracks[t][k].time + m.tracks[t][k].duration :
                           k \in 1..Len(m.tracks[t])} : t \in 1..Len(m.tracks)}
    IN  IF ends = {} THEN 0 ELSE CHOOSE e \in ends : \A x \in ends : x <= e

\* the schedule loops: handFilter === "both" || (handFilter === "left" &&
\* note.midi < 60) || (handFilter === "right" && note.midi >= 60)
shouldPlay(filter, midi) ==
    \/ filter = "both"
    \/ (filter = "left" /\ midi < HAND_SPLIT)
    \/ (filter = "right" /\ midi >= HAND_SPLIT)

\* the notes that midi.tracks.forEach(track => track.notes.forEach(...))
\* schedules on the transport, named as the visualizer names its notes
Schedule(m, filter) ==
    UNION {{NoteId(t - 1, k - 1, m.tracks[t][k].time) :
               k \in {j \in 1..Len(m.tracks[t]) : shouldPlay(filter, m.tracks[t][j].midi)}} :
           t \in 1..Len(m.tracks)}

\* no load handler is waiting for its file
NoLoading == [active |-> FALSE, midi |-> NoMidi, filter |-> "both"]

\* useState(false) for isPlaying, useState(0) for duration, the transport as
\* Tone creates it, no updateTime loop, nothing scheduled.  source is the call
\* that last wrote currentTime; restarted is TRUE from a togglePlay that
\* starts the transport at the beginning until a clock value is written;
\* loading is the load handler that waits for its file, with the handFilter
\* of the render it was created in.
InitialPlayer ==
    [isPlaying |-> FALSE, duration |-> 0, state |-> "stopped", seconds |-> 0,
     loop |-> FALSE, source |-> "load", restarted |-> FALSE,
     scheduled |-> {}, loading |-> NoLoading]

\* a load that leaves the transport as it is
LoadPlayerKeepsTransport(p, m, filter) ==
    [p EXCEPT !.isPlaying = FALSE, !.duration = MidiDuration(m),
              !.source = "load", !.restarted = FALSE,
              !.scheduled = Schedule(m, filter), !.loading = NoLoading]

\* loadMidiFromUrl / handleFileUpload after the file has arrived:
\* setDuration(midi.duration); setIsPlaying(false);
\* if (Tone.Transport.state === "started") Tone.Transport.stop();
\* Tone.Transport.cancel(); the notes are scheduled with the handler's handFilter
LoadPlayer(p, m, filter) ==
    LET q == IF p.state = "started" THEN TransportStop(p) ELSE p
    IN  [q EXCEPT !.isPlaying = FALSE, !.duration = MidiDuration(m),
                  !.source = "load", !.restarted = FALSE,
                  !.scheduled = Schedule(m, filter), !.loading = NoLoading]

\* handleSeek: Tone.Transport.seconds = newTime
SeekPlayer(p, t) ==
    [TransportSetSeconds(p, t) EXCEPT !.source = "seek", !.restarted = FALSE]

\* handleHandFilterChange: if (isLoaded && midiData) { savedTime, pause if
\* playing, cancel and reschedule, Tone.Transport.seconds = savedTime, start
\* if it was playing }
HandFilterPlayer(p, midi, newFilter) ==
    IF hasData(midi)
    THEN LET wasPlaying == p.isPlaying
             savedTime == p.seconds
             paused == IF wasPlaying THEN TransportPause(p) ELSE p
             rescheduled == [paused EXCEPT !.scheduled = Schedule(midi, newFilter)]
             restored == TransportSetSeconds(rescheduled, savedTime)
         IN  IF wasPlaying THEN TransportStart(restored) ELSE restored
    ELSE p

\* the visualizer is mounted with PianoPlayer's initial state and the mount
\* effects have run: CameraManager's effect has set isTransitioning and
\* started its timeout
Mounted ==
    /\ viewMode = "top-down"
    /\ midiData = NoMidi
    /\ handFilter = "both"
    /\ currentTime = 0
    /\ animTime = 0
    /\ synced = FALSE
    /\ notes = << >>
    /\ activeNotes = {}
    /\ rendered = << >>
    /\ particles = << >>
    /\ sparkles = << >>
    /\ phase = "keys"
    /\ frames = 0
    /\ frame = NoFrame
    /\ particleCalls = NoCalls
    /\ sparkleCalls = NoSparkleCalls
    /\ lastSpawnedNotes = {}
    /\ keyLog = NoKeyLog
    /\ noteLog = NoNoteLog
    /\ isTransitioning = TRUE
    /\ transitionTimer = StartTimer(NoTimer)
    /\ sinceChange = 0
    /\ controls = OrbitControls(FALSE, "top-down", TRUE)
    /\ pose = InitialPose
    /\ player = InitialPlayer

\* no pitch has been resolved
NoLanes ==
    [resolved |-> FALSE, low |-> 0, high |-> 0, lowLane |-> NoLane, highLane |-> NoLane,
     keys |-> << >>]

Init ==
    /\ Mounted
    /\ lanes = NoLanes

PoolNext ==
    \/ PianoKeysFrame
    \/ FallingNotesFrame
    \/ ParticleSystemFrame
    \/ SparkleSystemFrame
    \/ SetViewMode

SpecPool == Init /\ [][PoolNext]_vars

----------------------------------------------------------------------------
(* Claims about the pools, checked under SpecPool *)

\* C1: after any sequence of spawn requests and advance steps, in either view,
\* the particle pool and the sparkle pool each hold at most 500 members.
PoolWithinCapacity ==
    /\ Len(particles) <= 500
    /\ Len(sparkles) <= 500

\* both pools are full, in the second or a later frame, after a frame's spawn
\* requests and with an advance step behind them
PoolsFull ==
    /\ phase = "particles"
    /\ frames >= 2
    /\ particleCalls.calls > 0
    /\ sparkleCalls.calls > 0
    /\ Len(particles) = 500
    /\ Len(sparkles) = 500

\* C2: a spawn call on a pool holding k members adds exactly
\* min(perCallCount, capacity - k) members and leaves the k members as they
\* were: at k = capacity the pool is unchanged, and a call asking for more than
\* the remaining capacity leaves the pool at exactly capacity.  A frame that
\* makes n calls adds min(n * perCallCount, capacity - k).
SpawnFillsToCapacity ==
    [][ /\ (phase = "keys" /\ phase' = "notes") =>
            LET k == Len(particles)
                n == particleCalls'.calls
            IN  /\ n = 1 => Len(particles') = k + Min(10, 500 - k)
                /\ Len(particles') = k + Min(10 * n, 500 - k)
                /\ SubSeq(particles', 1, k) = particles
                /\ k = 500 => particles' = particles
                /\ k + 10 * n >= 500 => Len(particles') = 500
        /\ (phase = "notes" /\ phase' = "particles") =>
            LET k == Len(sparkles)
                n == sparkleCalls'.calls
                c == sparkleCalls'.requested
            IN  /\ n = 1 => Len(sparkles') = k + Min(c, 500 - k)
                /\ Len(sparkles') = k + Min(c * n, 500 - k)
                /\ SubSeq(sparkles', 1, k) = sparkles
                /\ k = 500 => sparkles' = sparkles
                /\ k + c * n >= 500 => Len(sparkles') = 500
      ]_vars

\* a single spawnParticles call found 491..499 members and filled the pool, and
\* the single spawnSparkles call of the same frame found the sparkle pool full
SpawnClipped ==
    /\ phase = "particles"
    /\ particleCalls.calls = 1
    /\ particleCalls.before > 490
    /\ particleCalls.before < 500
    /\ Len(particles) = 500
    /\ sparkleCalls.calls = 1
    /\ sparkleCalls.before = 500
    /\ Len(sparkles) = 500

\* C10: after every advance step of a pool no remaining member has life <= 0:
\* the members whose life the step brought to 0 or below are gone.
NoExpiredMember ==
    /\ \A i \in 1..Len(particles) : particles[i].life > 0
    /\ \A i \in 1..Len(sparkles) : sparkles[i].life > 0

\* a frame spawned 10 particles into the empty pool and the advance step
\* removed 5 of them and kept 5
AdvanceRemovedSome ==
    /\ phase = "sparkles"
    /\ particleCalls.calls = 1
    /\ particleCalls.before = 0
    /\ Len(particles) = 5
    /\ \A i \in 1..Len(particles) : particles[i].life < particles[i].maxLife

\* C11: one advance step changes each surviving member by: life decreases by
\* dt * fadeRate (1.2 particles, 1.5 sparkles), the y velocity decreases by
\* the pool's acceleration * dt (20 / 5) with the x and z velocity unchanged,
\* then position increases by the updated velocity * dt; a sparkle's rotation
\* increases by rotationSpeed * dt.  The survivors are the members whose
\* decreased life is above 0, in their order.
AdvanceIntegrates ==
    [][ /\ (phase = "particles" /\ phase' = "sparkles") =>
            LET dt == frame.delta
                Alive(m) == m.life - dt * 12 > 0
                live == SelectSeq(particles, Alive)
            IN  /\ Len(particles') = Len(live)
                /\ \A j \in 1..Len(live) :
                      /\ particles'[j].life = live[j].life - dt * 12
                      /\ particles'[j].maxLife = live[j].maxLife
                      /\ particles'[j].velocity =
                            <<live[j].velocity[1], live[j].velocity[2] - 20 * dt,
                              live[j].velocity[3]>>
                      /\ \A k \in 1..3 :
                            particles'[j].position[k] =
                                live[j].position[k] + particles'[j].velocity[k] * dt
        /\ (phase = "sparkles" /\ phase' = "keys") =>
            LET dt == frame.delta
                Alive(m) == m.life - dt * 15 > 0
                live == SelectSeq(sparkles, Alive)
            IN  /\ Len(sparkles') = Len(live)
                /\ \A j \in 1..Len(live) :
                      /\ sparkles'[j].life = live[j].life - dt * 15
                      /\ sparkles'[j].maxLife = live[j].maxLife
                      /\ sparkles'[j].velocity =
                            <<live[j].velocity[1], live[j].velocity[2] - 5 * dt,
                              live[j].velocity[3]>>
                      /\ \A k \in 1..3 :
                            sparkles'[j].position[k] =
                                live[j].position[k] + sparkles'[j].velocity[k] * dt
                      /\ sparkles'[j].rotationSpeed = live[j].rotationSpeed
                      /\ sparkles'[j].rotation =
                            live[j].rotation + live[j].rotationSpeed * dt
      ]_vars

\* a frame of 250 ms is over in the fall view: the oldest particle and the
\* oldest sparkle have been through one advance step each
MembersAdvanced ==
    /\ phase = "keys"
    /\ viewMode = "top-down"
    /\ Len(particles) > 0
    /\ Len(sparkles) > 0
    /\ particles[1].life = particles[1].maxLife - 250 * 12
    /\ particles[1].velocity[2] = 12000 - 250 * 20
    /\ particles[1].position[2] = 3000000 + (12000 - 250 * 20) * 250
    /\ sparkles[1].life = sparkles[1].maxLife - 250 * 15
    /\ sparkles[1].rotation = 1000000 + 2000 * 250

\* C12: every pool member has maxLife > 0 and 0 < life <= maxLife; an advance
\* step leaves the maxLife of each survivor as it was and makes its life
\* strictly smaller.
LifeWithinMaxLife ==
    /\ [](\A i \in 1..Len(particles) :
              /\ particles[i].maxLife > 0
              /\ particles[i].life > 0
              /\ particles[i].life <= particles[i].maxLife)
    /\ [](\A i \in 1..Len(sparkles) :
              /\ sparkles[i].maxLife > 0
              /\ sparkles[i].life > 0
              /\ sparkles[i].life <= sparkles[i].maxLife)
    /\ [][ /\ (phase = "particles" /\ phase' = "sparkles") =>
               LET Alive(m) == m.life - frame.delta * 12 > 0
                   live == SelectSeq(particles, Alive)
               IN  /\ frame.delta > 0
                   /\ Len(particles') = Len(live)
                   /\ \A j \in 1..Len(live) :
                         /\ particles'[j].maxLife = live[j].maxLife
                         /\ particles'[j].life < live[j].life
           /\ (phase = "sparkles" /\ phase' = "keys") =>
               LET Alive(m) == m.life - frame.delta * 15 > 0
                   live == SelectSeq(sparkles, Alive)
               IN  /\ frame.delta > 0
                   /\ Len(sparkles') = Len(live)
                   /\ \A j \in 1..Len(live) :
                         /\ sparkles'[j].maxLife = live[j].maxLife
                         /\ sparkles'[j].life < live[j].life
         ]_vars

\* the second frame is over: the oldest particle has been through two advance
\* steps of 250 ms and has less life left than it was spawned with
MemberAgedTwice ==
    /\ phase = "keys"
    /\ frames = 2
    /\ Len(particles) > 0
    /\ particles[1].maxLife > 0
    /\ particles[1].life = particles[1].maxLife - 2 * 250 * 12

----------------------------------------------------------------------------
(* The scene: the props PianoPlayer hands to PianoVisualizer, the animTime   *)
(* state of the mounted scene and what the scene derives from them.  Every   *)
(* change of state or props re-renders the scene, which recomputes its       *)
(* useMemo values and the note blocks.                                       *)

\* a score of two tracks.  Track 0 is not in time order and repeats pitch 60
\* back to back; its 50 ms note gets the minimum extent; the note of track 1
\* starts together with two notes of track 0 and lies in the left hand.
ScoreA ==
    [loaded |-> TRUE,
     tracks |-> << << [midi |-> 60, time |-> 2000, duration |-> 500],
                      [midi |-> 48, time |-> 5000, duration |-> 1000],
                      [midi |-> 61, time |-> 2000, duration |-> 50],
                      [midi |-> 72, time |-> 1000, duration |-> 3000],
                      [midi |-> 60, time |-> 2500, duration |-> 500] >>,
                   << [midi |-> 48, time |-> 2000, duration |-> 500] >> >>]

\* a score of one track
ScoreB ==
    [loaded |-> TRUE,
     tracks |-> << << [midi |-> 64, time |-> 5000, duration |-> 1000],
                      [midi |-> 40, time |-> 0, duration |-> 2000] >> >>]

Scores == {ScoreA, ScoreB}

\* a score as the MIDI parser may hand it over: the same note twice in one
\* track and once more in another, pitches above and below the 88 keys, a
\* note of duration 0 and an empty track
ScoreC ==
    [loaded |-> TRUE,
     tracks |-> << << [midi |-> 60, time |-> 1000, duration |-> 500],
                      [midi |-> 60, time |-> 1000, duration |-> 500],
                      [midi |-> 110, time |-> 500, duration |-> 500],
                      [midi |-> 59, time |-> 1000, duration |-> 0],
                      [midi |-> 20, time |-> 3000, duration |-> 100] >>,
                   << [midi |-> 60, time |-> 1000, duration |-> 500],
                      [midi |-> 61, time |-> 0, duration |-> 250] >>,
                   << >> >>]

ParsedScores == {ScoreA, ScoreB, ScoreC}

\* the values the clock takes (ms): Tone.Transport.seconds while playing, the
\* slider value on a seek
ClockValues ==
    {0, 1, 2, 1999, 2000, 2001, 2003, 2004, 2499, 2500, 3000, 3001, 3300, 3399,
     3400, 3500, 5000, 5500, 5899, 5900, 6000, 6500, 6501, 6600}

\* loadMidiFromUrl / handleFileUpload once the file m has arrived, in a
\* handler created with the hand filter closureFilter: setMidiData(midi);
\* setCurrentTime(0); the transport is set up
LoadMidiWith(m, closureFilter) ==
    /\ midiData' = m
    /\ notes' = DeriveNotes(m, handFilter)
    /\ CameraCommit(hasData(m), viewMode)
    /\ player' = LoadPlayer(player, m, closureFilter)
    /\ currentTime' = 0
    /\ synced' = FALSE
    /\ activeNotes' = DeriveActive(notes', animTime)
    /\ rendered' = Render(viewMode, notes', animTime)
    /\ UNCHANGED <<viewMode, handFilter, animTime, poolVars, lanes>>

\* a load whose file arrives at once, started when no other load is waiting
LoadMidiFrom(scores) ==
    /\ ~player.loading.active
    /\ \E m \in scores : LoadMidiWith(m, handFilter)

LoadMidi == LoadMidiFrom(Scores)

\* handleHandFilterChange: setHandFilter(newFilter)
SetHandFilter ==
    /\ \E f \in {"both", "left", "right"} :
          /\ f # handFilter
          /\ handFilter' = f
          /\ notes' = DeriveNotes(midiData, f)
          /\ player' = HandFilterPlayer(player, midiData, f)
    /\ activeNotes' = DeriveActive(notes', animTime)
    /\ rendered' = Render(viewMode, notes', animTime)
    /\ UNCHANGED <<viewMode, midiData, currentTime, animTime, synced, poolVars>>
    /\ UNCHANGED <<cameraVars, lanes>>

\* handleSeek / updateTime: setCurrentTime(t), which the effect of
\* PianoVisualizer copies into currentTimeRef.current
SetCurrentTimeFrom(values) ==
    /\ \E t \in values :
          /\ t # currentTime
          /\ currentTime' = t
          /\ player' = SeekPlayer(player, t)
    /\ synced' = FALSE
    /\ UNCHANGED <<viewMode, midiData, handFilter, animTime, notes, activeNotes,
                   rendered, poolVars>>
    /\ UNCHANGED <<cameraVars, lanes>>

SetCurrentTime == SetCurrentTimeFrom(ClockValues)

\* a synchronisation that lets the animation time lag twice as far
SyncAnimTimeCoarse(clock, anim) ==
    IF Abs(clock - anim) > 2 * SYNC_EPSILON THEN clock ELSE anim

\* if (Math.abs(currentTimeRef.current - animTime) > 0.001) setAnimTime(currentTimeRef.current)
SyncAnimTime(clock, anim) ==
    IF Abs(clock - anim) > SYNC_EPSILON THEN clock ELSE anim

\* the useFrame of PianoScene / SynthesiaScene
SceneFrame ==
    /\ phase = "keys"
    /\ animTime' = SyncAnimTime(currentTime, animTime)
    /\ synced' = TRUE
    /\ activeNotes' = DeriveActive(notes, animTime')
    /\ rendered' = Render(viewMode, notes, animTime')
    /\ UNCHANGED <<viewMode, midiData, handFilter, currentTime, notes, poolVars>>
    /\ UNCHANGED <<cameraVars, lanes, player>>

SceneNext ==
    \/ LoadMidi
    \/ SetHandFilter
    \/ SetViewMode
    \/ SetCurrentTime
    \/ SceneFrame

SpecScene == Init /\ [][SceneNext]_vars

\* the scene with any parsed score
LoadParsedMidi == LoadMidiFrom(ParsedScores)

IngestNext ==
    \/ LoadParsedMidi
    \/ SetHandFilter
    \/ SetViewMode
    \/ SetCurrentTime
    \/ SceneFrame

SpecIngest == Init /\ [][IngestNext]_vars

----------------------------------------------------------------------------
(* Claims about the note blocks and the active pitches, checked under        *)
(* SpecScene.  The clock value t of a rendering is animTime, the currentTime *)
(* prop of the renderer.                                                     *)

\* C3 (as stated): in both views a note is visible at t iff
\* onset - t <= W and (onset - t) + duration >= -g, with W = 1.6 s and g the
\* trailing grace of the view (0.5 s in the fall view, 0 in the recede view).
VisibleIffInWindow ==
    \A i \in 1..Len(notes) :
        LET n == notes[i]
            shown == \E j \in 1..Len(rendered) : rendered[j].id = n.id
            g == IF viewMode = "synthesia" THEN 0 ELSE 500
        IN  shown <=> /\ n.time - animTime <= 1600
                      /\ (n.time - animTime) + n.duration >= 0 - g

\* C3 (amended): in the fall view a note is visible at t iff onset - t <= W
\* and (onset - t) + duration >= -0.5 s; in the recede view iff onset - t <= W,
\* (onset - t) + duration >= 0 and, once t is past the onset, the clipped
\* extent max(0.1, duration * speed - gap) - (t - onset) * speed is positive.
\* A note with onset 5.0 and duration 1.0 is visible at 3.5 and not visible
\* at 3.3 and at 6.6.
VisibleInWindowAndUnclipped ==
    \A i \in 1..Len(notes) :
        LET n == notes[i]
            shown == \E j \in 1..Len(rendered) : rendered[j].id = n.id
            ahead == n.time - animTime
        IN  /\ viewMode = "top-down" =>
                (shown <=> ahead <= 1600 /\ ahead + n.duration >= 0 - 500)
            /\ viewMode = "synthesia" =>
                (shown <=> /\ ahead <= 1600
                           /\ ahead + n.duration >= 0
                           /\ \/ ahead >= 0
                              \/ Max(100, n.duration * 25 - 2500) + ahead * 25 > 0)
            /\ (n.time = 5000 /\ n.duration = 1000) =>
                /\ animTime = 3500 => shown
                /\ animTime \in {3300, 6600} => ~shown

\* the recede view at 5.9 s: the note with onset 5.0 and duration 1.0 is still
\* inside the window but its clipped extent is 0 and it is not rendered
NoteClippedAway ==
    /\ viewMode = "synthesia"
    /\ synced
    /\ animTime = 5900
    /\ \E i \in 1..Len(notes) :
          /\ notes[i].time = 5000
          /\ notes[i].duration = 1000
          /\ \A j \in 1..Len(rendered) : rendered[j].id # notes[i].id

\* C4: the active set derived for t is exactly the set of pitches of the notes
\* with onset <= t < onset + duration: a note puts its pitch into the set at
\* t = onset, and at t = onset + duration and at any t < onset its pitch is in
\* the set only if another note of that pitch is sounding.
ActiveIsHalfOpen ==
    /\ \A p \in activeNotes :
          \E i \in 1..Len(notes) :
              /\ notes[i].midi = p
              /\ notes[i].time <= animTime
              /\ animTime < notes[i].time + notes[i].duration
    /\ \A i \in 1..Len(notes) :
          LET n == notes[i]
          IN  /\ (n.time <= animTime /\ animTime < n.time + n.duration)
                    => n.midi \in activeNotes
              /\ animTime = n.time => n.midi \in activeNotes
              /\ (animTime = n.time + n.duration \/ animTime < n.time)
                    => \/ n.midi \notin activeNotes
                       \/ \E k \in 1..Len(notes) :
                             /\ k # i
                             /\ notes[k].midi = n.midi
                             /\ notes[k].time <= animTime
                             /\ animTime < notes[k].time + notes[k].duration

\* at 2.5 s the note of pitch 48 that ends at 2.5 has left the set and the
\* note of pitch 60 that starts at 2.5 has entered it
ActiveAtBoundary ==
    /\ synced
    /\ animTime = 2500
    /\ \E i \in 1..Len(notes) :
          /\ notes[i].midi = 48
          /\ notes[i].time + notes[i].duration = 2500
    /\ \E i \in 1..Len(notes) :
          /\ notes[i].midi = 60
          /\ notes[i].time = 2500
    /\ 48 \notin activeNotes
    /\ 60 \in activeNotes

\* C5 (as stated): the visible set and the active set shown in a frame are
\* functions of the note list and the clock value alone: once the scene's frame
\* callback has run, they equal what a freshly mounted scene derives in its
\* first frame from the same note list and the same clock value.
DerivedFromClockAlone ==
    synced =>
        LET fresh == IF Abs(currentTime - 0) > SYNC_EPSILON THEN currentTime ELSE 0
        IN  /\ activeNotes = DeriveActive(notes, fresh)
            /\ rendered = Render(viewMode, notes, fresh)

\* C6 (as stated): a frame that finds the clock jumped back, from a sampled
\* value past a note's end to a value t at which the note is visible, renders
\* the note with the placement a freshly mounted scene computes from t.
SeekBackRecomputes ==
    [][ (/\ synced'
         /\ notes' = notes
         /\ handFilter' = handFilter
         /\ viewMode' = viewMode
         /\ currentTime' = currentTime
         /\ currentTime < animTime)
        => \A i \in 1..Len(notes) :
              LET n == notes[i]
                  fresh == Render(viewMode, notes, currentTime)
              IN  (/\ animTime > n.time + n.duration
                   /\ \E k \in 1..Len(fresh) : fresh[k].id = n.id)
                  => \E j \in 1..Len(rendered'), k \in 1..Len(fresh) :
                        /\ fresh[k].id = n.id
                        /\ rendered'[j] = fresh[k]
      ]_vars

\* C7: in the recede view every rendered note has a positive extent, a
\* rendered note past its onset has its leading edge zCenter + extent/2 at
\* z = 0, and a note whose clipped extent is 0 is not rendered.
ClippedEdgeAtKeys ==
    viewMode = "synthesia" =>
        \A i \in 1..Len(notes) :
            LET n == notes[i]
                elapsed == animTime - n.time
            IN  /\ \A j \in 1..Len(rendered) :
                      rendered[j].id = n.id =>
                          /\ rendered[j].size > 0
                          /\ elapsed > 0 => rendered[j].centre2 + rendered[j].size = 0
                /\ (elapsed > 0 /\ Max(100, n.duration * 25 - 2500) <= elapsed * 25)
                      => \A j \in 1..Len(rendered) : rendered[j].id # n.id

\* the recede view 3 ms after the onset of the 50 ms note: a quarter of its
\* minimum extent is left, with the leading edge at the keys
ShortNoteClipped ==
    /\ viewMode = "synthesia"
    /\ synced
    /\ animTime = 2003
    /\ \E i \in 1..Len(notes), j \in 1..Len(rendered) :
          /\ notes[i].time = 2000
          /\ notes[i].duration = 50
          /\ rendered[j].id = notes[i].id
          /\ rendered[j].size = 25
          /\ rendered[j].centre2 = 0 - 25

\* C8 (as stated): in the recede view a note renders, a time e past its onset,
\* with remaining extent duration * speed - e * speed.
RemainingExtentOfFullLength ==
    viewMode = "synthesia" =>
        \A i \in 1..Len(notes), j \in 1..Len(rendered) :
            (rendered[j].id = notes[i].id /\ animTime > notes[i].time)
                => rendered[j].size =
                       notes[i].duration * 25 - (animTime - notes[i].time) * 25

\* C8 (amended): the remaining extent is
\* max(0.1, duration * speed - gap) - e * speed with gap = 2.5 units: a note of
\* duration 1 s has 10 units left when half its duration has elapsed.
RemainingExtentLessGap ==
    viewMode = "synthesia" =>
        \A i \in 1..Len(notes), j \in 1..Len(rendered) :
            (rendered[j].id = notes[i].id /\ animTime > notes[i].time)
                => /\ rendered[j].size =
                          Max(100, notes[i].duration * 25 - 2500)
                              - (animTime - notes[i].time) * 25
                   /\ (notes[i].duration = 1000 /\ animTime - notes[i].time = 500)
                          => rendered[j].size = 10000

\* the recede view at 5.5 s, half way through the note with onset 5.0 and
\* duration 1.0: 10 units are left
HalfElapsedNote ==
    /\ viewMode = "synthesia"
    /\ synced
    /\ animTime = 5500
    /\ \E i \in 1..Len(notes), j \in 1..Len(rendered) :
          /\ notes[i].time = 5000
          /\ notes[i].duration = 1000
          /\ rendered[j].id = notes[i].id
          /\ rendered[j].size = 10000

\* C9: in the fall view every note inside the window is rendered with
\* height = max(0.1, duration * speed - gap) and centre
\* y = base + (onset - t) * speed + height/2, so that its bottom edge is at
\* base + (onset - t) * speed before and after the onset.
FallPlacementFollowsClock ==
    viewMode = "top-down" =>
        \A i \in 1..Len(notes) :
            LET n == notes[i]
                ahead == n.time - animTime
            IN  /\ (ahead <= 1600 /\ ahead + n.duration >= 0 - 500)
                      => \E j \in 1..Len(rendered) : rendered[j].id = n.id
                /\ \A j \in 1..Len(rendered) :
                      rendered[j].id = n.id =>
                          /\ rendered[j].size = Max(100, n.duration * 25 - 2500)
                          /\ rendered[j].centre2 = 2 * (0 + ahead * 25) + rendered[j].size
                          /\ rendered[j].centre2 - rendered[j].size = 2 * ahead * 25

\* the fall view at 2.003 s: the 50 ms note, past its onset, has the minimum
\* height and its bottom edge 0.075 units below the keys
FallingPastOnset ==
    /\ viewMode = "top-down"
    /\ synced
    /\ animTime = 2003
    /\ \E i \in 1..Len(notes), j \in 1..Len(rendered) :
          /\ notes[i].time = 2000
          /\ notes[i].duration = 50
          /\ rendered[j].id = notes[i].id
          /\ rendered[j].size = 100
          /\ rendered[j].centre2 - rendered[j].size = 0 - 150

----------------------------------------------------------------------------
(* The camera controller: CameraManager's isTransitioning state, the timeout *)
(* of its effect and the OrbitControls it renders.  Time passes in steps; a  *)
(* timeout that is due fires before more time passes.                        *)

\* the steps (ms) in which time passes
ElapseSteps == {100, 250}

\* time passes, up to the moment a pending timeout is due
Elapse ==
    /\ sinceChange < MaxElapsed
    /\ transitionTimer.pending => transitionTimer.remaining > 0
    /\ \E step \in ElapseSteps :
          LET d == IF transitionTimer.pending
                   THEN Min(step, transitionTimer.remaining) ELSE step
          IN  /\ transitionTimer' = IF transitionTimer.pending
                                    THEN [transitionTimer EXCEPT !.remaining = @ - d]
                                    ELSE transitionTimer
              /\ sinceChange' = Min(sinceChange + d, MaxElapsed)
    /\ UNCHANGED <<viewMode, sceneVars, poolVars, isTransitioning, controls, pose, lanes, player>>

\* the timeout callback: setIsTransitioning(false), and the render that follows
TransitionTimeout ==
    /\ transitionTimer.pending
    /\ transitionTimer.remaining = 0
    /\ isTransitioning' = FALSE
    /\ transitionTimer' = NoTimer
    /\ controls' = OrbitControls(hasData(midiData), viewMode, FALSE)
    /\ UNCHANGED <<viewMode, sceneVars, poolVars, sinceChange, pose, lanes, player>>

CameraNext ==
    \/ LoadMidi
    \/ SetViewMode
    \/ Elapse
    \/ TransitionTimeout

SpecCamera == Init /\ [][CameraNext]_vars

\* time does pass and a due timeout callback does run
SpecCameraLive ==
    /\ Init
    /\ [][CameraNext]_vars
    /\ WF_vars(Elapse)
    /\ WF_vars(TransitionTimeout)

\* C13: every change of hasData or viewMode puts the controller into
\* Transitioning; the controller is Transitioning for the 2 seconds after the
\* last change, with its timeout due exactly 2 seconds after it, and Settled
\* from then on; Settled is left only by a change; without a further change a
\* Transitioning controller becomes Settled.
TransitionLastsTwoSeconds ==
    /\ [][ (midiData'.loaded # midiData.loaded \/ viewMode' # viewMode)
              => isTransitioning' ]_vars
    /\ [](isTransitioning =>
              /\ sinceChange <= 2000
              /\ transitionTimer.pending
              /\ transitionTimer.remaining = 2000 - sinceChange)
    /\ [](~isTransitioning => sinceChange >= 2000)
    /\ [][ (~isTransitioning /\ midiData'.loaded = midiData.loaded /\ viewMode' = viewMode)
              => ~isTransitioning' ]_vars
    /\ (isTransitioning /\ sinceChange > 0) ~> (~isTransitioning \/ sinceChange = 0)

\* a score is loaded, the view was switched to the recede view, and 2 seconds
\* after the last of these changes the controller is Settled
SettledAfterTwoSeconds ==
    /\ midiData.loaded
    /\ viewMode = "synthesia"
    /\ sinceChange = 2000
    /\ ~isTransitioning
    /\ ~transitionTimer.pending

\* C14: free camera input (OrbitControls enabled) is on iff the controller is
\* Settled: off throughout Transitioning, on again once Settled.
ControlsEnabledIffSettled ==
    controls.enabled <=> ~isTransitioning

\* the fall view with a score loaded, 2.5 seconds after the last change: the
\* controller is Settled and the controls are enabled
ControlsFreeWhenSettled ==
    /\ midiData.loaded
    /\ viewMode = "top-down"
    /\ sinceChange = 2500
    /\ ~isTransitioning
    /\ controls.enabled

\* C15: rotation by the user is disabled in the recede view ('synthesia'),
\* where the left button pans, and not disabled by the view mode in the fall
\* view ('top-down').
RotateOffInRecedeView ==
    /\ viewMode = "synthesia" => (~controls.enableRotate /\ controls.leftButton = "PAN")
    /\ viewMode = "top-down" => (controls.enableRotate /\ controls.leftButton = "ROTATE")

\* the recede view, Settled with the controls enabled and rotation off
RecedeViewSettledNoRotate ==
    /\ viewMode = "synthesia"
    /\ ~isTransitioning
    /\ controls.enabled
    /\ ~controls.enableRotate

----------------------------------------------------------------------------
(* Claims about the note list, checked under SpecIngest *)

\* C16: the derived note list is sorted ascending by onset time, and notes
\* with equal onset are in insertion order: by track, then by index within
\* the track.
NotesSortedStable ==
    midiData.loaded =>
        LET tracks == midiData.tracks
            Origins == UNION {{<<ti, k>> : k \in 1..Len(tracks[ti])} : ti \in 1..Len(tracks)}
            Origin(n) == CHOOSE o \in Origins :
                            NoteId(o[1] - 1, o[2] - 1, tracks[o[1]][o[2]].time) = n.id
        IN  \A a, b \in 1..Len(notes) :
                a < b =>
                    /\ notes[a].time <= notes[b].time
                    /\ notes[a].time = notes[b].time =>
                          \/ Origin(notes[a])[1] < Origin(notes[b])[1]
                          \/ /\ Origin(notes[a])[1] = Origin(notes[b])[1]
                             /\ Origin(notes[a])[2] < Origin(notes[b])[2]

\* the two-track score with both hands: the note pushed fourth is first, and
\* the three notes of onset 2.0 follow in track and index order
TiedNotesKeepOrder ==
    /\ midiData = ScoreA
    /\ handFilter = "both"
    /\ Len(notes) = 6
    /\ notes[1].id = "0-3-1000"
    /\ notes[2].id = "0-0-2000"
    /\ notes[3].id = "0-2-2000"
    /\ notes[4].id = "1-0-2000"

\* C17: filter 'left' keeps exactly the notes with pitch < 60, 'right' exactly
\* those with pitch >= 60, 'both' all notes; the left and right lists are
\* disjoint and together make up the 'both' list; a note is magenta iff its
\* pitch is < 60 and cyan otherwise.
FilterPartitionsAtSixty ==
    midiData.loaded =>
        LET tracks == midiData.tracks
            Origins == UNION {{<<ti, k>> : k \in 1..Len(tracks[ti])} : ti \in 1..Len(tracks)}
            Kept == {o \in Origins :
                        \/ handFilter = "both"
                        \/ handFilter = "left" /\ tracks[o[1]][o[2]].midi < 60
                        \/ handFilter = "right" /\ tracks[o[1]][o[2]].midi >= 60}
            Ids(list) == {list[i].id : i \in 1..Len(list)}
            left == DeriveNotes(midiData, "left")
            right == DeriveNotes(midiData, "right")
            both == DeriveNotes(midiData, "both")
        IN  /\ Len(notes) = Cardinality(Kept)
            /\ Ids(notes) = {NoteId(o[1] - 1, o[2] - 1, tracks[o[1]][o[2]].time) : o \in Kept}
            /\ Ids(left) \cap Ids(right) = {}
            /\ Ids(left) \cup Ids(right) = Ids(both)
            /\ Len(left) + Len(right) = Len(both)
            /\ \A i \in 1..Len(notes) :
                  /\ notes[i].color = "magenta" <=> notes[i].midi < 60
                  /\ notes[i].color = "cyan" <=> notes[i].midi >= 60

\* the right hand of the two-track score: the two notes of pitch 48 are gone,
\* the notes of pitch 60 are kept and cyan
RightHandKeepsSixty ==
    /\ midiData = ScoreA
    /\ handFilter = "right"
    /\ Len(notes) = 4
    /\ \E i \in 1..Len(notes) : notes[i].midi = 60 /\ notes[i].color = "cyan"
    /\ \A i \in 1..Len(notes) : notes[i].midi >= 60

\* C18 (as stated): every note in the derived note list has a pitch in 21..108
\* and a duration > 0, for any parsed score.
NotesWithinKeyboard ==
    \A i \in 1..Len(notes) :
        /\ notes[i].midi >= 21
        /\ notes[i].midi <= 108
        /\ notes[i].duration > 0

\* C20: no two notes of a derived note list have the same id.
NoteIdsUnique ==
    \A a, b \in 1..Len(notes) : a # b => notes[a].id # notes[b].id

\* the score with the same note twice in track 0 and once in track 1: the
\* three are in the list, with three ids
IdenticalNotesLoaded ==
    /\ midiData = ScoreC
    /\ handFilter = "both"
    /\ Cardinality({i \in 1..Len(notes) :
                       /\ notes[i].midi = 60
                       /\ notes[i].time = 1000
                       /\ notes[i].duration = 500}) = 3
    /\ Cardinality({notes[i].id : i \in 1..Len(notes)}) = Len(notes)

----------------------------------------------------------------------------
(* The lane resolver, applied to pairs of pitches and to the keyboard *)

LOWEST_KEY == 21
HIGHEST_KEY == 108

\* the keys of PianoKeys: getNoteX of every pitch from 21 to 108
PianoKeysKeys ==
    [k \in 1..(HIGHEST_KEY - LOWEST_KEY + 1) |->
        LET lane == getNoteX(LOWEST_KEY + k - 1)
        IN  [midi |-> LOWEST_KEY + k - 1, x |-> lane.x, width |-> lane.width,
             isBlack |-> lane.isBlack]]

\* two pitches of the keyboard, not yet resolved
LaneInit ==
    /\ Mounted
    /\ \E low, high \in LOWEST_KEY..HIGHEST_KEY :
          lanes = [NoLanes EXCEPT !.low = low, !.high = high]

\* the keyboard is built and the two pitches are resolved
ResolveLanes ==
    /\ ~lanes.resolved
    /\ lanes' = [lanes EXCEPT !.resolved = TRUE,
                              !.lowLane = getNoteX(lanes.low),
                              !.highLane = getNoteX(lanes.high),
                              !.keys = PianoKeysKeys]
    /\ UNCHANGED <<viewMode, sceneVars, poolVars, cameraVars, player>>

LaneNext == ResolveLanes

SpecLanes == LaneInit /\ [][LaneNext]_vars

\* C19: over the pitches 21..108 the lane resolver classifies exactly 52 as
\* white and 36 as black, and among the white keys the lane x is strictly
\* increasing with the pitch.
FiftyTwoWhiteLanesAscending ==
    lanes.resolved =>
        LET keys == lanes.keys
            White == {k \in 1..Len(keys) : ~keys[k].isBlack}
            Black == {k \in 1..Len(keys) : keys[k].isBlack}
        IN  /\ {keys[k].midi : k \in 1..Len(keys)} = 21..108
            /\ Cardinality(White) = 52
            /\ Cardinality(Black) = 36
            /\ \A a, b \in White : keys[a].midi < keys[b].midi => keys[a].x < keys[b].x
            /\ (/\ ~lanes.lowLane.isBlack
                /\ ~lanes.highLane.isBlack
                /\ lanes.low < lanes.high) => lanes.lowLane.x < lanes.highLane.x

\* the neighbouring white keys 64 and 65 are resolved, one white key apart
NeighbourWhiteKeysResolved ==
    /\ lanes.resolved
    /\ lanes.low = 64
    /\ lanes.high = 65
    /\ ~lanes.lowLane.isBlack
    /\ ~lanes.highLane.isBlack
    /\ lanes.highLane.x = lanes.lowLane.x + 2
    /\ Len(lanes.keys) = 88

----------------------------------------------------------------------------
(* Claims that compare the two views and the active notes with the rendered *)
(* ones, checked under SpecScene.  The clock value t is animTime.           *)

\* C25 (as stated): for the same note list and clock value the set of notes
\* rendered in the fall view equals the set rendered in the recede view.
ViewsRenderSameNotes ==
    LET Ids(placements) == {placements[j].id : j \in 1..Len(placements)}
        other == IF viewMode = "top-down" THEN "synthesia" ELSE "top-down"
    IN  Ids(rendered) = Ids(Render(other, notes, animTime))

\* C25 (amended): both views use the same look-ahead window W, so a note
\* ahead of the keys is rendered in both or in neither; every note rendered in
\* the recede view is rendered in the fall view; the fall view alone renders a
\* note for the 0.5 s after its end and while its clipped extent
\* max(0.1, duration * speed - gap) - (t - onset) * speed is 0.
RecedeNotesAreFallNotes ==
    LET Ids(placements) == {placements[j].id : j \in 1..Len(placements)}
        fall == IF viewMode = "top-down" THEN Ids(rendered)
                ELSE Ids(Render("top-down", notes, animTime))
        recede == IF viewMode = "synthesia" THEN Ids(rendered)
                  ELSE Ids(Render("synthesia", notes, animTime))
    IN  /\ recede \subseteq fall
        /\ \A i \in 1..Len(notes) :
              LET n == notes[i]
                  ahead == n.time - animTime
              IN  /\ ahead >= 0 => (n.id \in fall <=> n.id \in recede)
                  /\ (n.id \in fall /\ n.id \notin recede) <=>
                        /\ ahead < 0
                        /\ ahead + n.duration >= 0 - 500
                        /\ \/ ahead + n.duration < 0
                           \/ Max(100, n.duration * 25 - 2500) + ahead * 25 <= 0

\* the fall view at 3.0 s: the note with onset 2.0 and duration 0.5 ended
\* 0.5 s ago and is rendered, the recede view does not render it; the note
\* with onset 1.0 and duration 3.0 is rendered in both
FallViewKeepsEndedNote ==
    /\ viewMode = "top-down"
    /\ midiData = ScoreA
    /\ animTime = 3000
    /\ \E j \in 1..Len(rendered) : rendered[j].id = "0-0-2000"
    /\ \E j \in 1..Len(rendered) : rendered[j].id = "0-3-1000"
    /\ LET recede == Render("synthesia", notes, animTime)
       IN  /\ \A j \in 1..Len(recede) : recede[j].id # "0-0-2000"
           /\ \E j \in 1..Len(recede) : recede[j].id = "0-3-1000"

----------------------------------------------------------------------------
(* Further claims about the camera controller, checked under SpecCamera *)

\* C28: the camera auto-rotates exactly in the menu state: autoRotate is on
\* iff no score is loaded and the controller is Settled, and it is off in
\* every state in which a score is loaded.
AutoRotateOnlyInMenu ==
    /\ controls.autoRotate <=> (~midiData.loaded /\ ~isTransitioning)
    /\ midiData.loaded => ~controls.autoRotate

\* the menu, 2 seconds after the mount: Settled and auto-rotating
MenuSettledAutoRotates ==
    /\ ~midiData.loaded
    /\ ~isTransitioning
    /\ sinceChange >= 2000
    /\ controls.autoRotate
    /\ controls.enabled

----------------------------------------------------------------------------
(* A further claim about the pools, checked under SpecPool *)

\* C29: an advance step removes only expired members: every member whose
\* decreased life is above 0 is kept, the number of such members never
\* exceeds the mesh capacity (1000 particles, 500 sparkles), so the branch
\* that prunes above the capacity is not taken, and the highest instance index
\* written, one less than the number kept, is below the capacity.
OnlyExpiredRemoved ==
    [][ /\ (phase = "particles" /\ phase' = "sparkles") =>
            LET unexpired == Cardinality({i \in 1..Len(particles) :
                                             particles[i].life - frame.delta * 12 > 0})
            IN  /\ unexpired <= 1000
                /\ Len(particles') = unexpired
                /\ Len(particles') - 1 < 1000
        /\ (phase = "sparkles" /\ phase' = "keys") =>
            LET unexpired == Cardinality({i \in 1..Len(sparkles) :
                                             sparkles[i].life - frame.delta * 15 > 0})
            IN  /\ unexpired <= 500
                /\ Len(sparkles') = unexpired
                /\ Len(sparkles') - 1 < 500
      ]_vars

\* a frame filled the sparkle pool to 500 and its advance step kept all 500:
\* the newest member, written at instance index 499, has aged
FullPoolSurvivesAdvance ==
    /\ phase = "keys"
    /\ frames >= 1
    /\ Len(sparkles) = 500
    /\ sparkles[500].life < sparkles[500].maxLife
    /\ sparkles[1].life > 0

----------------------------------------------------------------------------
(* The camera pose.  A frame of CameraManager takes the time since the      *)
(* frame before it as its delta; a timeout that is due fires between two    *)
(* frames.                                                                  *)

\* frame times (ms) of the camera: a slow frame and a slower one
CameraDeltas == {250, 500}

\* a frame: CameraManager.useFrame runs, with the time passed as its delta
CameraFrame ==
    /\ frames < MaxCameraFrames
    /\ transitionTimer.pending => transitionTimer.remaining > 0
    /\ \E step \in CameraDeltas :
          LET d == IF transitionTimer.pending
                   THEN Min(step, transitionTimer.remaining) ELSE step
          IN  /\ transitionTimer' = IF transitionTimer.pending
                                    THEN [transitionTimer EXCEPT !.remaining = @ - d]
                                    ELSE transitionTimer
              /\ sinceChange' = Min(sinceChange + d, MaxElapsed)
              /\ pose' = CameraManagerFrame(pose, hasData(midiData), viewMode,
                                            isTransitioning, d)
    /\ frames' = frames + 1
    /\ UNCHANGED <<viewMode, sceneVars, particles, sparkles, phase, frame, particleCalls,
                   sparkleCalls, logVars, isTransitioning, controls, lanes, player>>

PoseNext ==
    \/ LoadMidi
    \/ SetViewMode
    \/ CameraFrame
    \/ TransitionTimeout

SpecPose == Init /\ [][PoseNext]_vars

\* C26 (as stated): a frame update in the Settled state leaves the camera
\* position, the look-at target and the up vector unchanged.
SettledFrameKeepsPose ==
    [][ (~isTransitioning /\ sinceChange' > sinceChange) => pose' = pose ]_vars

----------------------------------------------------------------------------
(* The effects of a score.  The frames of the mounted scene run PianoKeys   *)
(* with the scene's activeNotes and the note renderer with the scene's      *)
(* notes and animTime; loads, seeks, view switches and the scene's own      *)
(* useFrame happen between two frames.                                      *)

EffectScores == {ScoreA, ScoreC}

\* clock values (ms): the start, and two values with notes sounding and others
\* less than the visible window ahead
EffectClockValues == {0, 1200, 2100}

\* the time (ms) between two frames
EffectDeltas == {250}

\* the ids the note renderer adds to visibleNoteIds
VisibleNoteIds(view, noteList, t) ==
    {noteList[i].id : i \in {j \in 1..Len(noteList) :
        IF view = "synthesia" THEN ~synthesiaHidden(noteList[j], t)
        ELSE ~fallHidden(noteList[j], t)}}

\* the ids the note renderer calls onSpawnSparkles for:
\* !lastSpawnedNotes.current.has(note.id) && timeUntilHit > 0 && timeUntilHit < VISIBLE_WINDOW
SparkleDue(view, noteList, t, spawned) ==
    {noteList[i].id : i \in {j \in 1..Len(noteList) :
        /\ noteList[j].id \in VisibleNoteIds(view, noteList, t)
        /\ noteList[j].id \notin spawned
        /\ noteList[j].time - t > 0
        /\ noteList[j].time - t < VISIBLE_WINDOW}}

\* a renderer that forgets at the end of a frame what it has spawned
SpawnedForgotten(spawned, due, visible) == {}

\* lastSpawnedNotes.current after the frame: the ids added on a request, less
\* the ids the cleanup loop deletes because they are not in visibleNoteIds
SpawnedAfterFrame(spawned, due, visible) == (spawned \cup due) \cap visible

\* PianoKeys.useFrame with the activeNotes of the scene
EffectsKeysFrame ==
    /\ phase = "keys"
    /\ frames < MaxEffectFrames
    /\ frames' = frames + 1
    /\ LET pitches == KeyPitches(ActiveOrder(notes, animTime))
           lives == MixedLives(viewMode)
       IN  /\ particles' = SpawnParticlesTimes(particles, Len(pitches), lives,
                                                  ParticleDraw(viewMode))
           /\ particleCalls' = [calls |-> Len(pitches), before |-> Len(particles)]
           /\ keyLog' = [frame |-> frames + 1,
                         calls |-> KeySpawnLog(particles, pitches, lives,
                                               ParticleDraw(viewMode))]
    /\ \E dt \in EffectDeltas :
          frame' = [delta |-> dt,
                    calls |-> Cardinality(SparkleDue(viewMode, notes, animTime,
                                                     lastSpawnedNotes)),
                    requested |-> FewSparkles(viewMode)]
    /\ phase' = NextCallback(phase)
    /\ UNCHANGED <<viewMode, sceneVars, sparkles, sparkleCalls, lastSpawnedNotes, noteLog>>
    /\ UNCHANGED <<cameraVars, lanes, player>>

\* FallingNotes.useFrame / SynthesiaFallingNotes.useFrame with the notes and
\* the currentTime prop (animTime) of the scene; with record the frame is
\* appended to the history
NotesFrame(record) ==
    /\ phase = "notes"
    /\ LET due == SparkleDue(viewMode, notes, animTime, lastSpawnedNotes)
       IN  /\ sparkles' = SpawnSparklesTimes(sparkles, Cardinality(due), frame.requested,
                                            SparkleDraw(viewMode))
           /\ sparkleCalls' = [calls |-> Cardinality(due), requested |-> frame.requested,
                               before |-> Len(sparkles)]
           /\ noteLog' = [frame |-> frames, clock |-> animTime, ids |-> due,
                          remounted |-> FALSE,
                          history |->
                            IF record
                            THEN Append(noteLog.history,
                                   [clock |-> animTime, ids |-> due,
                                    visible |-> VisibleNoteIds(viewMode, notes, animTime),
                                    fresh |-> noteLog.remounted])
                            ELSE noteLog.history]
           /\ lastSpawnedNotes' =
                 SpawnedAfterFrame(lastSpawnedNotes, due,
                                   VisibleNoteIds(viewMode, notes, animTime))
    /\ phase' = NextCallback(phase)
    /\ UNCHANGED <<viewMode, sceneVars, particles, particleCalls, frames, frame, keyLog>>
    /\ UNCHANGED <<cameraVars, lanes, player>>

EffectsNotesFrame ==
    /\ phase = "notes"
    /\ NotesFrame(FALSE)

\* a score is loaded between two frames
EffectsLoadMidi ==
    /\ phase = "keys"
    /\ LoadMidiFrom(EffectScores)

\* the clock changes between two frames
EffectsSetCurrentTime ==
    /\ phase = "keys"
    /\ SetCurrentTimeFrom(EffectClockValues)

EffectsNext ==
    \/ EffectsLoadMidi
    \/ EffectsSetCurrentTime
    \/ SetViewMode
    \/ SceneFrame
    \/ EffectsKeysFrame
    \/ EffectsNotesFrame
    \/ ParticleSystemFrame
    \/ SparkleSystemFrame

SpecEffects == Init /\ [][EffectsNext]_vars

\* The frames of the note renderer over one score, with their history
RunLoadMidi ==
    /\ phase = "keys"
    /\ LoadMidiFrom({ScoreA})

RecordedNotesFrame ==
    /\ phase = "notes"
    /\ NotesFrame(TRUE)

RunNext ==
    \/ RunLoadMidi
    \/ EffectsSetCurrentTime
    \/ SetViewMode
    \/ SceneFrame
    \/ EffectsKeysFrame
    \/ RecordedNotesFrame
    \/ ParticleSystemFrame
    \/ SparkleSystemFrame

SpecRuns == Init /\ [][RunNext]_vars

----------------------------------------------------------------------------
(* Claims about the spawn calls of one frame *)

\* C22 (as stated): in every frame in which several pitches are active, the
\* spawn request of each active pitch adds at least one particle to the pool.
EveryPitchGetsAParticle ==
    Len(keyLog.calls) >= 2 =>
        \A k \in 1..Len(keyLog.calls) : keyLog.calls[k].added >= 1

SpawnsBeforeAdvance ==
    [][ /\ (phase \in {"particles", "sparkles"} /\ phase' # phase) =>
              (keyLog.frame = frames /\ noteLog.frame = frames)
        /\ Len(particles') > Len(particles) => (phase = "keys" /\ keyLog'.frame = frames')
        /\ Len(sparkles') > Len(sparkles) => (phase = "notes" /\ noteLog'.frame = frames')
      ]_vars

\* a frame is complete: both passes spawned, and both pools were advanced
\* with the members of this frame in them
FrameSpawnedThenAdvanced ==
    /\ phase = "keys"
    /\ frames >= 1
    /\ keyLog.frame = frames
    /\ noteLog.frame = frames
    /\ \E k \in 1..Len(keyLog.calls) : keyLog.calls[k].added > 0
    /\ noteLog.ids # {}
    /\ particleCalls.before = 0
    /\ sparkleCalls.before = 0
    /\ Len(particles) > 0
    /\ Len(sparkles) > 0

\* C24: the notes a frame requests sparkles for are the visible notes whose
\* onset lies less than the visible window ahead of the clock, whatever the
\* frames before it were
SparkleRequestsFromClockAlone ==
    [][ (phase = "notes" /\ phase' # phase) =>
            noteLog'.ids = SparkleDue(viewMode, notes, animTime, {}) ]_vars

----------------------------------------------------------------------------
(* Playback: the play button, the slider, the hand filter, the transport's  *)
(* own progress with the end-of-song callback, and the updateTime loop that *)
(* copies the transport position into currentTime.                          *)

PlayerScores == {ScoreA, ScoreC}

\* slider values (ms): the start, inside both scores, the end of either
PlayerClockValues == {0, 2000, 3100, 6000}

\* progress of the transport (ms) between two callbacks
TickSteps == {500, 1000}

\* an updateTime that copies the position whatever the transport's state
updateTimeAlways(state) == TRUE

\* updateTime: if (Tone.Transport.state === "started")
updateTimeWrites(state) == state = "started"

PlayerLoadMidi == LoadMidiFrom(PlayerScores)

\* the slider is rendered when isLoaded && duration > 0, with max={duration}
HandleSeek ==
    /\ hasData(midiData)
    /\ player.duration > 0
    /\ SetCurrentTimeFrom({t \in PlayerClockValues : t <= player.duration})

\* togglePlay: if (!isLoaded) return; at the end the position is put back to
\* 0; pause or start; setIsPlaying(!isPlaying).  The effect on [isPlaying]
\* calls updateTime when isPlaying has become true.
TogglePlay ==
    /\ hasData(midiData)
    /\ LET atEnd == player.seconds >= player.duration /\ player.duration > 0
           q == IF atEnd THEN TransportSetSeconds(player, 0) ELSE player
       IN  player' =
             IF player.isPlaying
             THEN [TransportPause(q) EXCEPT !.isPlaying = FALSE,
                                             !.restarted = @ \/ atEnd]
             ELSE [TransportStart(q) EXCEPT !.isPlaying = TRUE, !.loop = TRUE,
                                             !.restarted = @ \/ atEnd \/ player.state = "stopped"]
    /\ UNCHANGED <<viewMode, sceneVars, poolVars, cameraVars, lanes>>

\* the transport advances; when it reaches midi.duration the scheduled
\* callback runs: setIsPlaying(false); Tone.Transport.stop()
TransportTick ==
    /\ player.state = "started"
    /\ \E d \in TickSteps :
          player' =
            IF player.seconds <= player.duration /\ player.seconds + d >= player.duration
            THEN [TransportStop(player) EXCEPT !.isPlaying = FALSE]
            ELSE TransportSetSeconds(player, player.seconds + d)
    /\ UNCHANGED <<viewMode, sceneVars, poolVars, cameraVars, lanes>>

\* updateTime, called by the effect or by requestAnimationFrame: while the
\* transport is started it writes the position and requests the next call,
\* otherwise the loop ends
UpdateTime ==
    /\ player.loop
    /\ IF updateTimeWrites(player.state)
       THEN /\ currentTime' = player.seconds
            /\ synced' = FALSE
            /\ player' = [player EXCEPT !.source = "update", !.restarted = FALSE]
       ELSE /\ player' = [player EXCEPT !.loop = FALSE]
            /\ UNCHANGED <<currentTime, synced>>
    /\ UNCHANGED <<viewMode, midiData, handFilter, animTime, notes, activeNotes,
                   rendered, poolVars>>
    /\ UNCHANGED <<cameraVars, lanes>>

PlayerNext ==
    \/ PlayerLoadMidi
    \/ HandleSeek
    \/ SetHandFilter
    \/ TogglePlay
    \/ TransportTick
    \/ UpdateTime

SpecPlayer == Init /\ [][PlayerNext]_vars

\* C27: the clock value handed to the visualizer decreases only in a seek or
\* a load, or in the first value written after the play button started the
\* transport at the beginning; it does not decrease during playback, across
\* a hand-filter change or when the song ends
ClockDecreasesOnlyExplicitly ==
    [][ currentTime' < currentTime =>
            (player'.source \in {"seek", "load"} \/ player.restarted) ]_vars

\* the song has ended after the hand filter was changed during playback: the
\* transport is back at 0 and the clock still has the last value written
EndOfSongKeepsClock ==
    /\ player.source = "update"
    /\ handFilter # "both"
    /\ player.state = "stopped"
    /\ ~player.isPlaying
    /\ player.seconds = 0
    /\ currentTime > 0

----------------------------------------------------------------------------
(* Claims about the lanes of black keys *)

\* C33: a black key lies strictly between the white key below it and the
\* white key above it
BlackKeyBetweenWhiteKeys ==
    lanes.resolved =>
        /\ (lanes.lowLane.isBlack /\ lanes.high = lanes.low + 1) =>
               lanes.lowLane.x < lanes.highLane.x
        /\ (lanes.highLane.isBlack /\ lanes.low = lanes.high - 1) =>
               lanes.lowLane.x < lanes.highLane.x

----------------------------------------------------------------------------
(* Claims about the animation time *)

\* C32: once the scene's useFrame has run for the current clock value, the
\* animation time is at most 0.001 s away from it
AnimTimeWithinEpsilon ==
    synced => Abs(currentTime - animTime) <= SYNC_EPSILON

\* the scene's useFrame has run after a seek and has left the animation time
\* where it was, 0.001 s away from the clock
SyncedButNotEqual ==
    /\ synced
    /\ player.source = "seek"
    /\ Abs(currentTime - animTime) = SYNC_EPSILON

----------------------------------------------------------------------------
(* Claims about repeated sparkle requests.  noteLog.history has one entry   *)
(* per frame of the note renderer: the clock, the ids requested, the ids    *)
(* visible, and whether it was the first frame of a newly mounted renderer. *)

----------------------------------------------------------------------------
(* Claims about a change during a camera transition *)

\* C34: a change of hasData or viewMode while the controller is Transitioning
\* replaces the pending timeout by one of the full period, and the
\* controller becomes Settled only when 2 seconds have passed since the
\* most recent change
ChangeRestartsTransition ==
    [][ /\ (isTransitioning /\ (midiData'.loaded # midiData.loaded \/ viewMode' # viewMode))
            => /\ isTransitioning'
               /\ transitionTimer' = [pending |-> TRUE, remaining |-> TRANSITION_MS]
               /\ sinceChange' = 0
        /\ (isTransitioning /\ ~isTransitioning') => sinceChange >= TRANSITION_MS
      ]_vars

\* one frame after the mount, less than 2 seconds into the first transition,
\* a score has been loaded and the timeout has its full period again
LoadDuringFirstTransition ==
    /\ frames = 1
    /\ midiData.loaded
    /\ isTransitioning
    /\ sinceChange = 0
    /\ transitionTimer.remaining = TRANSITION_MS

----------------------------------------------------------------------------
(* Loads whose file arrives later.  loadMidiFromUrl and handleFileUpload    *)
(* await the file; the handler that continues is the one of the render in   *)
(* which the load was started, with the handFilter of that render.          *)

\* the load handler runs up to its await
BeginLoad ==
    /\ ~player.loading.active
    /\ \E m \in PlayerScores :
          player' = [player EXCEPT !.loading = [active |-> TRUE, midi |-> m,
                                                filter |-> handFilter]]
    /\ UNCHANGED <<viewMode, sceneVars, poolVars, cameraVars, lanes>>

\* the file has arrived and the load handler runs to its end
CompleteLoad ==
    /\ player.loading.active
    /\ LoadMidiWith(player.loading.midi, player.loading.filter)

LoadsNext ==
    \/ BeginLoad
    \/ CompleteLoad
    \/ HandleSeek
    \/ SetHandFilter
    \/ TogglePlay
    \/ TransportTick
    \/ UpdateTime

SpecLoads == Init /\ [][LoadsNext]_vars

\* C35: when no load is waiting, the notes scheduled on the transport are
\* the notes of the visualizer's list, those the current hand filter selects
ScheduledIsDisplayed ==
    ~player.loading.active =>
        player.scheduled = {notes[i].id : i \in 1..Len(notes)}

\* C36: when no load is waiting, isPlaying is true iff the transport is
\* started
PlayingIffStarted ==
    ~player.loading.active =>
        (player.isPlaying <=> player.state = "started")

\* a second score was loaded while the first was playing: the transport was
\* stopped and isPlaying is false, the updateTime loop has not yet ended
LoadStoppedPlayback ==
    /\ ~player.loading.active
    /\ midiData = ScoreC
    /\ player.source = "load"
    /\ player.loop
    /\ ~player.isPlaying
    /\ player.state = "stopped"

\* C37: a load leaves the displayed clock and the transport position at 0
LoadResetsClockAndTransport ==
    [][ midiData' # midiData => (currentTime' = 0 /\ player'.seconds = 0) ]_vars

----------------------------------------------------------------------------
(* The pools after the last spawn request.  When MaxSpawnFrames frames have *)
(* spawned, the frames go on with no active pitch and no note becoming      *)
(* visible: PianoKeys and the note renderer issue no call, the two systems  *)
(* advance their pools.                                                     *)

\* a frame with spawn requests, with at most one active pitch
SpawningKeysFrame ==
    /\ frames < MaxSpawnFrames
    /\ KeysFrameFrom({in \in FrameInputs(viewMode) : Cardinality(in.active) <= 1})

\* PianoKeys.useFrame with an empty activeNotes, in a frame in which the note
\* renderer has nothing to spawn
QuietKeysFrame ==
    /\ phase = "keys"
    /\ frames = MaxSpawnFrames
    /\ particleCalls' = [calls |-> 0, before |-> Len(particles)]
    /\ keyLog' = [frame |-> frames, calls |-> << >>]
    /\ \E dt \in Deltas :
          frame' = [delta |-> dt, calls |-> 0, requested |-> 0]
    /\ phase' = NextCallback(phase)
    /\ UNCHANGED <<viewMode, sceneVars, particles, sparkles, frames, sparkleCalls,
                   lastSpawnedNotes, noteLog>>
    /\ UNCHANGED <<cameraVars, lanes, player>>

DrainNext ==
    \/ SpawningKeysFrame
    \/ QuietKeysFrame
    \/ FallingNotesFrame
    \/ ParticleSystemFrame
    \/ SparkleSystemFrame
    \/ SetViewMode

\* the render loop runs every useFrame callback in every frame
SpecDrain ==
    /\ Init
    /\ [][DrainNext]_vars
    /\ WF_vars(QuietKeysFrame)
    /\ WF_vars(FallingNotesFrame)
    /\ WF_vars(ParticleSystemFrame)
    /\ WF_vars(SparkleSystemFrame)

\* C38: once no spawn request is issued any more and frames keep arriving,
\* both pools become empty
PoolsDrain ==
    (frames = MaxSpawnFrames) ~> (particles = << >> /\ sparkles = << >>)

\* a frame without spawn requests started with members in both pools and
\* its advance steps removed the last of them
QuietFrameEmptiedPools ==
    /\ frames = MaxSpawnFrames
    /\ phase = "keys"
    /\ particleCalls.calls = 0
    /\ particleCalls.before > 0
    /\ sparkleCalls.calls = 0
    /\ sparkleCalls.before > 0
    /\ particles = << >>
    /\ sparkles = << >>
====
